---- MODULE Spec2Model ----
(***************************************************************************)
(* Batch-fetch orchestration of the market-cap fetcher: the React          *)
(* component MarketCapForm (src/src/components/MarketCapForm.tsx) and the   *)
(* responses of POST /api/market-cap as the component sees them.            *)
(*                                                                          *)
(* One macrotask of the browser's event loop is one action: a click         *)
(* handler, the settling of a fetch, or the firing of a sleep timer, each   *)
(* together with the promise continuations (microtasks) it releases.        *)
(* Every call of processData is a "run": it keeps the values of the render  *)
(* it was created in (tickers, years, delay, isPaused) and its own          *)
(* accumulators, while the refs and the React state are shared.             *)
(*                                                                          *)
(* Spec is the component under the user's clicks, the answer to each        *)
(* request being one of four outcomes. ServerSpec follows a single request  *)
(* through the route (src/src/app/api/market-cap/route.ts, the version with *)
(* fallback dates, lines 387-705) or through EODHDClient.getMarketCap, one  *)
(* upstream lookup per action, up to the row the component records.         *)
(* ExportSpec is the component with its year inputs and pivot exports: a    *)
(* batch without delay, edits of the two year fields and the three CSV      *)
(* downloads. PausedStopSpec is Spec under a user who stops only while the  *)
(* batch is paused, and FairSpec a small batch in which every request       *)
(* returns, every timer fires and every pause is followed by a resume.      *)
(* Prices are in thousandths of a dollar and share counts in units of       *)
(* 100,000,000 shares, so that every product fits a 32-bit integer.         *)
(***************************************************************************)
EXTENDS Integers, Sequences, FiniteSets, TLC

\* ------------------------------------------------------------------ bounds
\* Number of times processData may be started in one behaviour.
MaxRuns == 3

\* ------------------------------------------------- values of the form fields
\* Texts of the ticker textarea the behaviours start from.
TickerInputs == {"", " ", "aapl ZZZZ", "ZZZZ"}

\* (startYear, endYear) pairs of the two year inputs.
YearRanges == {<<2009, 2010>>, <<2025, 2025>>, <<2010, 2009>>}

\* Values of the delay input (ms).
DelayInputs == {0, 100}

\* What a POST to /api/market-cap can come back as, seen from the client:
\*   "ok"     2xx whose body has no error field
\*   "err200" 2xx whose body has an error field
\*   "http"   a status outside 2xx
\*   "net"    fetch rejects with a network failure (not an abort)
Outcomes == {"ok", "err200", "http", "net"}

\* The tickers the upstream is asked about, after toUpperCase.
TickerNames == {"AAPL", "ZZZZ"}

\* The answers of the API the behaviours are checked against: one outcome per
\* ticker, the same for every request of a behaviour.
Upstreams ==
  {u \in [TickerNames -> Outcomes] :
     /\ u["AAPL"] \in {"ok", "net"}
     /\ u["ZZZZ"] \in {"err200", "http"}}

NoController == 0
NoRun == 0

\* No export was made yet.
NoDownload == [filename |-> "", content |-> "", table |-> <<>>, of |-> <<>>]

\* ------------------------------------------------------------ string helpers
CharAt(s, i) == SubSeq(s, i, i)

IsSpace(c) == c \in {" ", "\t", "\n"}

LowerChars == "abcdefghijklmnopqrstuvwxyz"
UpperChars == "ABCDEFGHIJKLMNOPQRSTUVWXYZ"

UpperChar(c) ==
  IF \E i \in 1..Len(LowerChars) : CharAt(LowerChars, i) = c
  THEN CharAt(UpperChars, CHOOSE i \in 1..Len(LowerChars) : CharAt(LowerChars, i) = c)
  ELSE c

RECURSIVE ToUpperCase(_)
ToUpperCase(s) ==
  IF Len(s) = 0 THEN "" ELSE UpperChar(CharAt(s, 1)) \o ToUpperCase(SubSeq(s, 2, Len(s)))

RECURSIVE TrimStart(_)
TrimStart(s) ==
  IF Len(s) > 0 /\ IsSpace(CharAt(s, 1)) THEN TrimStart(SubSeq(s, 2, Len(s))) ELSE s

RECURSIVE TrimEnd(_)
TrimEnd(s) ==
  IF Len(s) > 0 /\ IsSpace(CharAt(s, Len(s))) THEN TrimEnd(SubSeq(s, 1, Len(s) - 1)) ELSE s

Trim(s) == TrimEnd(TrimStart(s))

\* s.split(/\s+/): the pieces between maximal runs of whitespace.
RECURSIVE SplitFrom(_, _, _)
SplitFrom(s, cur, inGap) ==
  IF Len(s) = 0 THEN <<cur>>
  ELSE LET c == CharAt(s, 1)
           rest == SubSeq(s, 2, Len(s))
       IN IF IsSpace(c)
          THEN IF inGap THEN SplitFrom(rest, cur, TRUE)
               ELSE <<cur>> \o SplitFrom(rest, "", TRUE)
          ELSE SplitFrom(rest, cur \o c, FALSE)

SplitWhitespace(s) == SplitFrom(s, "", FALSE)

\* tickers.trim().split(/\s+/).map(t => t.toUpperCase())
ParseTickerList(text) ==
  LET parts == SplitWhitespace(Trim(text))
  IN [i \in 1..Len(parts) |-> ToUpperCase(parts[i])]

\* Variant of YearsOf that reads a reversed range as the years between its ends.
YearsOfEitherWay(sy, ey) ==
  LET lo == IF sy <= ey THEN sy ELSE ey
      hi == IF sy <= ey THEN ey ELSE sy
  IN [i \in 1..(hi - lo + 1) |-> lo + (i - 1)]

\* Array.from({ length: endYear - startYear + 1 }, (_, i) => startYear + i)
YearsOf(sy, ey) ==
  LET n == IF ey - sy + 1 > 0 THEN ey - sy + 1 ELSE 0
  IN [i \in 1..n |-> sy + (i - 1)]

\* ------------------------------------------------------- year-to-date table
\* The initial (and only) value of the startOfYearDates state: a date is
\* <<year, month, day>>.
ConfiguredYears == 2010..2025

StartOfYearDay(y) ==
  CASE y = 2010 -> 5 [] y = 2011 -> 4 [] y = 2012 -> 3 [] y = 2013 -> 2
    [] y = 2014 -> 7 [] y = 2015 -> 6 [] y = 2016 -> 5 [] y = 2017 -> 3
    [] y = 2018 -> 2 [] y = 2019 -> 2 [] y = 2020 -> 7 [] y = 2021 -> 5
    [] y = 2022 -> 4 [] y = 2023 -> 3 [] y = 2024 -> 2 [] y = 2025 -> 7

startOfYearDates == [y \in ConfiguredYears |-> <<y, 1, StartOfYearDay(y)>>]

\* Variant of DateFor whose default is January 1.
DateForJanFirst(year) ==
  IF year \in DOMAIN startOfYearDates THEN startOfYearDates[year] ELSE <<year, 1, 1>>

\* startOfYearDates[year.toString()] || `${year}-01-02`
DateFor(year) ==
  IF year \in DOMAIN startOfYearDates THEN startOfYearDates[year] ELSE <<year, 1, 2>>

\* ------------------------------------------------------ /api/market-cap
\* Variant of FormatTicker that appends the suffix to every ticker.
FormatTickerAlways(t) == t \o ".US"

\* ticker.includes('.') ? ticker : `${ticker}.US`
HasDot(t) == \E i \in 1..Len(t) : CharAt(t, i) = "."

FormatTicker(t) == IF HasDot(t) THEN t ELSE t \o ".US"

\* `HTTP ${response.status}: ${response.statusText}` for the route's 500 answer.
HttpErrorMessage == "HTTP 500: Internal Server Error"

\* The message of the TypeError a failed fetch rejects with.
NetworkErrorMessage == "Failed to fetch"

\* The error field of a 2xx body.
BodyErrorMessage == "Failed to fetch market cap data"

\* ------------------------------------------------- decimal text of numbers
Digits == "0123456789"

DigitChar(d) == SubSeq(Digits, d + 1, d + 1)

RECURSIVE NatToString(_)
NatToString(n) ==
  IF n < 10 THEN DigitChar(n) ELSE NatToString(n \div 10) \o DigitChar(n % 10)

Pad2(n) == IF n < 10 THEN "0" \o NatToString(n) ELSE NatToString(n)

\* The YYYY-MM-DD text of a date <<year, month, day>>.
FormatDate(d) == NatToString(d[1]) \o "-" \o Pad2(d[2]) \o "-" \o Pad2(d[3])

\* ----------------------------------------------- calendar and the Date object
IsLeap(y) == (y % 4 = 0 /\ y % 100 # 0) \/ y % 400 = 0

DaysInMonth(y, m) ==
  IF m = 2 THEN (IF IsLeap(y) THEN 29 ELSE 28)
  ELSE IF m \in {4, 6, 9, 11} THEN 30 ELSE 31

NextDay(d) ==
  IF d[3] < DaysInMonth(d[1], d[2]) THEN <<d[1], d[2], d[3] + 1>>
  ELSE IF d[2] < 12 THEN <<d[1], d[2] + 1, 1>>
  ELSE <<d[1] + 1, 1, 1>>

PrevDay(d) ==
  IF d[3] > 1 THEN <<d[1], d[2], d[3] - 1>>
  ELSE IF d[2] > 1 THEN <<d[1], d[2] - 1, DaysInMonth(d[1], d[2] - 1)>>
  ELSE <<d[1] - 1, 12, 31>>

RECURSIVE AddDays(_, _)
AddDays(d, n) ==
  IF n = 0 THEN d
  ELSE IF n > 0 THEN AddDays(NextDay(d), n - 1)
  ELSE AddDays(PrevDay(d), n + 1)

DateLess(a, b) ==
  \/ a[1] < b[1]
  \/ a[1] = b[1] /\ a[2] < b[2]
  \/ a[1] = b[1] /\ a[2] = b[2] /\ a[3] < b[3]

\* A point in time, or a wall-clock reading: a date and the minute of the day.
\* Normalize carries a minute count outside 0..1439 into the date.
Normalize(date, min) ==
  IF min < 0 THEN [date |-> PrevDay(date), min |-> min + 1440]
  ELSE IF min >= 1440 THEN [date |-> NextDay(date), min |-> min - 1440]
  ELSE [date |-> date, min |-> min]

InstLess(a, b) == DateLess(a.date, b.date) \/ (a.date = b.date /\ a.min < b.min)

\* The time zone of the process the route runs in: the offset from UTC in
\* minutes before and after one transition, and the UTC time of the transition.
\* New York changes from UTC-5 to UTC-4 on 2024-03-10 at 07:00 UTC.
ZoneUTC == [before |-> 0, after |-> 0, at |-> [date |-> <<2024, 3, 10>>, min |-> 420]]
ZoneNewYork == [before |-> -300, after |-> -240, at |-> [date |-> <<2024, 3, 10>>, min |-> 420]]
ZoneTokyo == [before |-> 540, after |-> 540, at |-> [date |-> <<2024, 3, 10>>, min |-> 420]]

Zones == {ZoneUTC, ZoneNewYork, ZoneTokyo}

OffsetAt(zone, inst) == IF InstLess(inst, zone.at) THEN zone.before ELSE zone.after

\* The local wall-clock reading of a point in time.
ToLocal(zone, inst) == Normalize(inst.date, inst.min + OffsetAt(zone, inst))

\* The point in time of a local wall-clock reading.
FromLocal(zone, wall) ==
  LET early == Normalize(wall.date, wall.min - zone.before)
  IN IF InstLess(early, zone.at) THEN early
     ELSE Normalize(wall.date, wall.min - zone.after)

\* new Date('YYYY-MM-DD'): midnight UTC of that date.
ParseDate(d) == [date |-> d, min |-> 0]

\* Date.prototype.getDate(): the day of the month in local time.
GetDate(zone, inst) == ToLocal(zone, inst).date[3]

\* Date.prototype.setDate(n): day n of the local month, a day past the end of
\* the month running on into the next; the local time of day is kept.
SetDate(zone, inst, n) ==
  LET wall == ToLocal(zone, inst)
      first == <<wall.date[1], wall.date[2], 1>>
  IN FromLocal(zone, [date |-> AddDays(first, n - 1), min |-> wall.min])

\* toISOString().split('T')[0]: the date in UTC.
ToISODate(inst) == inst.date

\* ----------------------------------------------- POST /api/market-cap (387-705)
\* Number of days after the requested date that are tried.
FallbackDays == 5

\* generateFallbackDates (522-534)
generateFallbackDates(zone, dateStr) ==
  LET baseDate == ParseDate(dateStr)
  IN [i \in 1..FallbackDays |->
        ToISODate(SetDate(zone, baseDate, GetDate(zone, baseDate) + i))]

\* What the end-of-day endpoint can answer for one date:
\*   "data"  a record with close and adjusted_close
\*   "noadj" a record whose adjusted_close is missing or 0
\*   "empty" an empty array
\*   "http"  a status outside 2xx
\*   "net"   the fetch rejects
PriceKinds == {"data", "noadj", "empty", "http", "net"}

\* (close, adjusted_close) of a record, in thousandths of a dollar. None lies on
\* a rounding tie of the percentage or at a difference of exactly 0.01, where
\* the outcome depends on the binary representation of the operands.
PricePairs ==
  {<<100000, 95000>>, <<100000, 100000>>, <<100000, 100005>>, <<100000, 99980>>,
   <<100000, 100120>>, <<200000, 100000>>}

\* tryFetchPriceForDate (537-568): "throw", "null", or the record.
tryFetchPriceForDate(kind, date, pp) ==
  IF kind \in {"http", "net"} THEN [kind |-> "throw"]
  ELSE IF kind = "empty" THEN [kind |-> "null"]
  ELSE IF kind = "noadj" THEN [kind |-> "null"]
  ELSE [kind |-> "record", date |-> date, close |-> pp[1], adjusted_close |-> pp[2]]

\* A field of the fundamentals body is <<>> when absent and <<v>> when it holds v.
\* Share counts are in units of 100,000,000 shares.
Absent == <<>>

\* The fields read at 582-587, in that order: SharesStats.SharesOutstanding,
\* Highlights.SharesOutstanding, General.SharesOutstanding,
\* shareStatsSharesOutstanding, outstandingShares.
AliasCount == 5

\* What the fundamentals endpoint can answer.
FundResponses ==
  {[kind |-> "http"], [kind |-> "net"]} \cup
  {[kind |-> "json", aliases |-> a] :
     a \in {<<Absent, Absent, Absent, Absent, Absent>>,
            <<<<3>>, Absent, Absent, Absent, Absent>>,
            <<<<3>>, <<4>>, Absent, Absent, Absent>>,
            <<Absent, <<4>>, Absent, Absent, Absent>>,
            <<<<0>>, <<4>>, Absent, Absent, Absent>>,
            <<<<-5>>, <<4>>, Absent, Absent, Absent>>,
            <<<<-5>>, Absent, Absent, Absent, Absent>>,
            <<<<0>>, <<0>>, <<0>>, <<0>>, <<0>>>>,
            <<Absent, Absent, <<7>>, Absent, Absent>>,
            <<Absent, Absent, Absent, <<8>>, <<6>>>>,
            <<Absent, Absent, Absent, Absent, <<6>>>>}}

\* JavaScript truthiness of a field: present and not 0.
Truthy(field) == field # Absent /\ field[1] # 0

\* a || b || c || d || e: the first truthy operand, else the last operand.
OrChain(aliases) ==
  IF \E i \in 1..AliasCount : Truthy(aliases[i])
  THEN aliases[CHOOSE i \in 1..AliasCount :
                 Truthy(aliases[i]) /\ \A j \in 1..(i - 1) : ~Truthy(aliases[j])]
  ELSE aliases[AliasCount]

\* Variant of getSharesOutstanding that lets a count of zero or less through.
getSharesOutstandingUnchecked(resp) ==
  IF resp.kind \in {"http", "net"} THEN Absent
  ELSE LET sharesOutstanding == OrChain(resp.aliases)
       IN IF sharesOutstanding # Absent THEN sharesOutstanding ELSE Absent

\* getSharesOutstanding (571-599): <<n>>, or <<>> for null.
getSharesOutstanding(resp) ==
  IF resp.kind \in {"http", "net"} THEN Absent
  ELSE LET sharesOutstanding == OrChain(resp.aliases)
       IN IF Truthy(sharesOutstanding) /\ sharesOutstanding[1] > 0
          THEN sharesOutstanding
          ELSE Absent

\* The entries of defaultShares (603-691) for the tickers requested here.
defaultShares == [t \in {"AAPL.US", "MSFT.US"} |-> IF t = "AAPL.US" THEN 154 ELSE 74]

\* defaultShares[ticker] || 1000000000 (694)
FallbackShares == 10

\* Variant of getDefaultSharesOutstanding without the fallback of 694.
getDefaultSharesOutstandingTableOnly(ticker) ==
  IF ticker \in DOMAIN defaultShares THEN defaultShares[ticker] ELSE 0

\* getDefaultSharesOutstanding (602-694)
getDefaultSharesOutstanding(ticker) ==
  IF ticker \in DOMAIN defaultShares /\ defaultShares[ticker] # 0
  THEN defaultShares[ticker]
  ELSE FallbackShares

\* 1_000_000_000 dollars in the unit of a market cap, which is that of a price
\* times that of a share count: 100,000 dollars.
Billion == 10000

\* A quotient kept exact, as numerator and denominator.
Ratio(n, d) == [num |-> n, den |-> d]

\* Math.round(n / d) for d > 0: the nearest integer, a half going up.
RoundDiv(n, d) == (2 * n + d) \div (2 * d)

Abs(x) == IF x < 0 THEN -x ELSE x

\* q.toFixed(1) for q = num / den, den > 0: the sign, then the magnitude rounded
\* to tenths.
ToFixed1(num, den) ==
  LET tenths == RoundDiv(Abs(num) * 10, den)
  IN (IF num < 0 THEN "-" ELSE "") \o NatToString(tenths \div 10) \o "."
       \o DigitChar(tenths % 10)

\* The value of a field that is undefined and so left out of the JSON body.
Undefined == ""

\* Variant of PriceAdjustmentNote without the threshold of 0.01.
PriceAdjustmentNoteAnyDifference(rawPrice, adjustedPrice) ==
  IF Abs(adjustedPrice - rawPrice) > 0
  THEN "Split/dividend adjusted price used ("
         \o ToFixed1((adjustedPrice - rawPrice) * 100, rawPrice) \o "% adjustment)"
  ELSE Undefined

\* Lines 464-466; 0.01 dollars is 10 thousandths, and
\* (adjustedPrice / rawPrice - 1) * 100 = (adjustedPrice - rawPrice) * 100 / rawPrice.
PriceAdjustmentNote(rawPrice, adjustedPrice) ==
  IF Abs(adjustedPrice - rawPrice) > 10
  THEN "Split/dividend adjusted price used ("
         \o ToFixed1((adjustedPrice - rawPrice) * 100, rawPrice) \o "% adjustment)"
  ELSE Undefined

\* Lines 449-467: the body of a successful answer.
MarketCapResult(formattedTicker, priceData, sharesOutstanding) ==
  LET rawPrice == priceData.close
      adjustedPrice == priceData.adjusted_close
      marketCap == adjustedPrice * sharesOutstanding
      marketCapBillions == Ratio(marketCap, Billion)
  IN [ticker |-> formattedTicker,
      date |-> priceData.date,
      price |-> rawPrice,
      adjusted_price |-> adjustedPrice,
      shares_outstanding |-> sharesOutstanding,
      market_cap |-> marketCap,
      market_cap_billions |-> marketCapBillions,
      price_adjustment_note |-> PriceAdjustmentNote(rawPrice, adjustedPrice)]

\* Lines 438-441 and 479-483: the body of the answer when no date had a price.
NoPriceDataBody(formattedTicker, date) ==
  [error |-> "Failed to fetch market cap data: No price data available for "
               \o formattedTicker \o " around " \o FormatDate(date)]

\* Lines 185-203 of the component: what the answer is to the client.
ClientOutcome(status, body) ==
  IF status \notin 200..299 THEN "http"
  ELSE IF "error" \in DOMAIN body THEN "err200"
  ELSE "ok"

\* ------------------------------------ EODHDClient (MarketCapForm.tsx 717-826)
\* getSharesOutstanding (760-794): the first of the five keys whose value is a
\* truthy number; "throw" when the request fails or no key qualifies.
clientGetSharesOutstanding(resp) ==
  IF resp.kind \in {"http", "net"} THEN [kind |-> "throw"]
  ELSE IF \E i \in 1..AliasCount : Truthy(resp.aliases[i])
       THEN [kind |-> "value", shares |-> OrChain(resp.aliases)[1]]
       ELSE [kind |-> "throw"]

\* getHistoricalPrice (733-758): data[0].close, whatever adjusted_close is.
clientGetHistoricalPrice(kind, pp) ==
  IF kind \in {"http", "net", "empty"} THEN [kind |-> "throw"]
  ELSE [kind |-> "value", price |-> pp[1]]

\* getMarketCap (796-825): the record built from the price and the share count.
clientMarketCapResult(ticker, targetDate, price, shares) ==
  LET marketCap == price * shares
  IN [ticker |-> FormatTicker(ticker),
      date |-> targetDate,
      price |-> price,
      shares_outstanding |-> shares,
      market_cap |-> marketCap,
      market_cap_billions |-> Ratio(RoundDiv(marketCap, Billion \div 100), 100)]

\* ------------------------------------- export (MarketCapForm.tsx 268-366)
\* The characters of tickers in the order of their UTF-16 code units, which is
\* the order Array.prototype.sort() compares strings by.
CodeUnitOrder == "-.0123456789ABCDEFGHIJKLMNOPQRSTUVWXYZ"

CodeUnit(c) == CHOOSE i \in 1..Len(CodeUnitOrder) : CharAt(CodeUnitOrder, i) = c

\* a < b as sort() without a comparator decides it.
RECURSIVE StringLess(_, _)
StringLess(a, b) ==
  IF Len(b) = 0 THEN FALSE
  ELSE IF Len(a) = 0 THEN TRUE
  ELSE IF CharAt(a, 1) = CharAt(b, 1)
       THEN StringLess(SubSeq(a, 2, Len(a)), SubSeq(b, 2, Len(b)))
       ELSE CodeUnit(CharAt(a, 1)) < CodeUnit(CharAt(b, 1))

\* s.replace(pat, rep) with a string pattern: the first occurrence only.
RECURSIVE ReplaceFirst(_, _, _)
ReplaceFirst(s, pat, rep) ==
  IF Len(s) < Len(pat) THEN s
  ELSE IF SubSeq(s, 1, Len(pat)) = pat THEN rep \o SubSeq(s, Len(pat) + 1, Len(s))
  ELSE CharAt(s, 1) \o ReplaceFirst(SubSeq(s, 2, Len(s)), pat, rep)

\* Variant of DisplayTicker that keeps the ticker as the record holds it.
DisplayTickerUnstripped(ticker) == ticker

\* r.ticker?.replace('.US', '')
DisplayTicker(ticker) == ReplaceFirst(ticker, ".US", "")

\* Array.from(new Set(s)): the distinct elements in the order of their first
\* occurrence.
RECURSIVE Distinct(_)
Distinct(s) ==
  IF Len(s) = 0 THEN <<>>
  ELSE LET front == Distinct(SubSeq(s, 1, Len(s) - 1))
           last == s[Len(s)]
       IN IF \E i \in DOMAIN front : front[i] = last THEN front ELSE Append(front, last)

\* Variant of Sort that leaves the order of insertion.
SortNot(s) == s

\* .sort() of an array of distinct strings.
RECURSIVE Sort(_)
Sort(s) ==
  IF Len(s) = 0 THEN <<>>
  ELSE LET sorted == Sort(SubSeq(s, 1, Len(s) - 1))
           x == s[Len(s)]
           k == Cardinality({i \in DOMAIN sorted : ~StringLess(x, sorted[i])})
       IN SubSeq(sorted, 1, k) \o <<x>> \o SubSeq(sorted, k + 1, Len(sorted))

\* getSelectedYears (269-274) for the startYear and endYear of the render.
getSelectedYears(sy, ey) ==
  LET n == IF ey - sy + 1 > 0 THEN ey - sy + 1 ELSE 0
  IN [i \in 1..n |-> NatToString(sy + (i - 1))]

\* The digits after the decimal point of r / d, for 0 <= r < d and d a power of
\* ten.
RECURSIVE FractionDigits(_, _)
FractionDigits(r, d) ==
  IF r = 0 THEN ""
  ELSE DigitChar((r * 10) \div d) \o FractionDigits((r * 10) % d, d)

\* Number.prototype.toString() of the number n / d, d a power of ten.
DecimalString(n, d) ==
  LET a == Abs(n)
      whole == NatToString(a \div d)
      frac == FractionDigits(a % d, d)
  IN (IF n < 0 THEN "-" ELSE "") \o whole \o (IF frac = "" THEN "" ELSE "." \o frac)

\* The three metrics of the pivot exports.
PivotFields == {"adjusted_price", "market_cap_billions", "shares_outstanding"}

\* value.toString() for the value of a metric, from the model's units: prices
\* are thousandths of a dollar, share counts are hundreds of millions, billions
\* are a ratio.
ValueToString(field, value) ==
  CASE field = "adjusted_price" -> DecimalString(value, 1000)
    [] field = "shares_outstanding" ->
         IF value = 0 THEN "0" ELSE DecimalString(value, 1) \o "00000000"
    [] field = "market_cap_billions" -> DecimalString(value.num, value.den)

\* createPivotData (277-299) for the startYear and endYear of the render.
createPivotData(res, field, sy, ey) ==
  LET selectedYears == getSelectedYears(sy, ey)
      tickerList == Sort(Distinct([i \in DOMAIN res |-> DisplayTicker(res[i].ticker)]))
      headers == <<"Ticker">> \o selectedYears
      Found(ticker, year) ==
        {i \in DOMAIN res :
           DisplayTicker(res[i].ticker) = ticker /\ NatToString(res[i].year) = year}
      Cell(ticker, year) ==
        IF Found(ticker, year) = {} THEN ""
        ELSE LET result == res[CHOOSE i \in Found(ticker, year) :
                                  \A j \in Found(ticker, year) : i <= j]
             IN IF field \in DOMAIN result THEN ValueToString(field, result[field]) ELSE ""
      rows == [k \in DOMAIN tickerList |->
                 <<tickerList[k]>> \o
                 [j \in DOMAIN selectedYears |-> Cell(tickerList[k], selectedYears[j])]]
  IN <<headers>> \o rows

\* parts.join(sep)
RECURSIVE Join(_, _)
Join(parts, sep) ==
  IF Len(parts) = 0 THEN ""
  ELSE IF Len(parts) = 1 THEN parts[1]
  ELSE Join(SubSeq(parts, 1, Len(parts) - 1), sep) \o sep \o parts[Len(parts)]

\* csvData.map(row => row.join(',')).join('\n')
CsvContent(csvData) == Join([i \in DOMAIN csvData |-> Join(csvData[i], ",")], "\n")

\* The file name each pivot export gives to downloadCsv (305, 311, 317).
ExportFileName ==
  [f \in PivotFields |->
     CASE f = "adjusted_price" -> "market_cap_prices.csv"
       [] f = "market_cap_billions" -> "market_cap_values.csv"
       [] f = "shares_outstanding" -> "shares_outstanding.csv"]

\* ------------------------------------------ the API as the batch sees it
\* The quote of a ticker on a date in the behaviours of the component: a close
\* in whole dollars that grows by a dollar a year, adjusted five dollars down.
QuoteOf(formattedTicker, date) ==
  LET close == 100000 + 1000 * (date[1] - 2000)
  IN [date |-> date, close |-> close, adjusted_close |-> close - 5000]

\* The body of a 2xx answer of the route (455-467) for that quote when the
\* fundamentals hold no share count.
AnswerOf(formattedTicker, date) ==
  MarketCapResult(formattedTicker, QuoteOf(formattedTicker, date),
                  getDefaultSharesOutstanding(formattedTicker))

\* ------------------------------------------------ a request being served
NoDate == <<>>
NoBody == <<>>

\* server when no request is being served. pc is "post" when the POST has
\* arrived, "price" while a price lookup is pending (the n-th date after the
\* requested one), "shares" while the fundamentals lookup is pending,
\* "getMarketCap" when EODHDClient.getMarketCap was called, "responded" at the
\* end. via and attempts are history: which of the two was called, and the
\* upstream price lookups made, in order; fund holds the fundamentals lookups;
\* calls is every request made to the provider: endpoint, symbol and date.
ServerIdle ==
  [pc |-> "idle", via |-> "", calls |-> <<>>, zone |-> ZoneUTC, token |-> FALSE,
   ticker |-> "", date |-> NoDate, year |-> 0, prices |-> <<>>, formattedTicker |-> "", n |-> 0, attempts |-> <<>>,
   priceData |-> <<>>, fund |-> <<>>, status |-> 0, body |-> NoBody]

\* ------------------------------------------------------------------- state
VARIABLES
  tickers,            \* useState: text of the ticker textarea
  startYear,          \* useState
  endYear,            \* useState
  delay,              \* useState
  results,            \* useState: published MarketCapData[]
  errors,             \* useState: published ErrorData[]
  isLoading,          \* useState
  isPaused,           \* useState
  progress,           \* useState: {completed, total, failed}
  abortControllerRef, \* useRef: the controller created by the latest start
  aborted,            \* the controllers whose abort() was called
  pauseResolveRef,    \* useRef: the run whose waitForResume promise is pending
  runs,               \* the invocations of processData, by number
  nruns,              \* how many invocations were made
  alerted,            \* alert('Please enter at least one ticker symbol') was shown
  server,             \* one request to POST /api/market-cap or EODHDClient, see below
  upstream,           \* environment: what the API answers for each ticker
  downloaded          \* the file the latest export handed to downloadCsv

vars == <<tickers, startYear, endYear, delay, results, errors, isLoading, isPaused,
          progress, abortControllerRef, aborted, pauseResolveRef, runs, nruns, alerted,
          server, upstream, downloaded>>

RunIds == 1..MaxRuns

\* A processData invocation that was not made yet.
\* issued, endedBy, stopped and resumed are history: the requests the run has
\* begun, how it ended, and whether stop() and resume() were invoked during it.
NotStarted ==
  [pc |-> "none", tickerList |-> <<>>, years |-> <<>>, delay |-> 0, isPaused |-> FALSE,
   ti |-> 1, yi |-> 1, sig |-> NoController, totalRequests |-> 0,
   allResults |-> <<>>, allErrors |-> <<>>, completed |-> 0, failed |-> 0,
   issued |-> <<>>, endedBy |-> "", stopped |-> FALSE, resumed |-> FALSE]

Live(run) == run.pc \in {"fetch", "sleep", "blocked"}

Init ==
  /\ tickers \in TickerInputs
  /\ \E yr \in YearRanges : startYear = yr[1] /\ endYear = yr[2]
  /\ delay \in DelayInputs
  /\ results = <<>>
  /\ errors = <<>>
  /\ isLoading = FALSE
  /\ isPaused = FALSE
  /\ progress = [completed |-> 0, total |-> 0, failed |-> 0]
  /\ abortControllerRef = NoController
  /\ aborted = {}
  /\ pauseResolveRef = NoRun
  /\ runs = [r \in RunIds |-> NotStarted]
  /\ nruns = 0
  /\ alerted = FALSE
  /\ server = ServerIdle
  /\ upstream \in Upstreams
  /\ downloaded = NoDownload

\* ------------------------------------------------------- the loop of a run
\* The pair the loops `for (const ticker of tickerList) for (const year of years)`
\* stand at.
CurTicker(run) == run.tickerList[run.ti]
CurYear(run) == run.years[run.yi]

\* The outer loop has run out of tickers.
LoopOver(run) == run.ti > Len(run.tickerList)

\* First position whose body executes: with no years no body ever executes.
FirstPos(run) ==
  IF Len(run.years) = 0
  THEN [run EXCEPT !.ti = Len(run.tickerList) + 1, !.yi = 1]
  ELSE [run EXCEPT !.ti = 1, !.yi = 1]

\* Variant of NextPos with the loops swapped: years outside, tickers inside.
NextPosYearMajor(run) ==
  IF run.ti < Len(run.tickerList)
  THEN [run EXCEPT !.ti = @ + 1]
  ELSE IF run.yi < Len(run.years)
       THEN [run EXCEPT !.ti = 1, !.yi = @ + 1]
       ELSE [run EXCEPT !.ti = @ + 1, !.yi = 1]

\* The step of the two nested for-of loops.
NextPos(run) ==
  IF run.yi < Len(run.years)
  THEN [run EXCEPT !.yi = @ + 1]
  ELSE [run EXCEPT !.ti = @ + 1, !.yi = 1]

\* Variant of Finish that counts a request cut off by the abort as a failed item.
FinishCountingAbort(run, why) ==
  [run EXCEPT !.pc = "done", !.sig = NoController, !.endedBy = why,
              !.failed = IF why = "abort" /\ run.pc = "fetch" THEN @ + 1 ELSE @]

\* The finally block, and the end of the async function.
Finish(run, why) == [run EXCEPT !.pc = "done", !.sig = NoController, !.endedBy = why]

\* Lines 175-183: fetch with the signal of the controller the ref holds now.
\* fetch with an aborted signal rejects at once with an AbortError, which the
\* inner catch turns into a return (206-210); no request is made.
IssueFetch(run, ctl, ab) ==
  IF ctl \in ab
  THEN Finish(run, "abort")
  ELSE [run EXCEPT !.pc = "fetch", !.sig = ctl,
                   !.issued = Append(@, [ti |-> run.ti, ticker |-> CurTicker(run),
                                         year |-> CurYear(run),
                                         date |-> DateFor(CurYear(run))])]

\* Variant of IterTop that looks at the abort signal before the loop condition.
IterTopAbortFirst(run, ctl, ab) ==
  IF ctl \in ab THEN Finish(run, "abort")
  ELSE IF LoopOver(run) THEN Finish(run, "complete")
  ELSE IF run.isPaused THEN [run EXCEPT !.pc = "blocked"]
  ELSE IssueFetch(run, ctl, ab)

\* Variant of IterTop that drops the pending pair when the batch is paused.
IterTopPauseSkips(run, ctl, ab) ==
  LET at == IF isPaused /\ ~LoopOver(run) THEN NextPos(run) ELSE run
  IN IF LoopOver(at) THEN Finish(at, "complete")
     ELSE IF ctl \in ab THEN Finish(at, "abort")
     ELSE IssueFetch(at, ctl, ab)

\* Variant of IterTop whose waitForResume reads the pause flag of the moment.
IterTopLivePause(run, ctl, ab) ==
  IF LoopOver(run) THEN Finish(run, "complete")
  ELSE IF ctl \in ab THEN Finish(run, "abort")
  ELSE IF isPaused THEN [run EXCEPT !.pc = "blocked"]
  ELSE IssueFetch(run, ctl, ab)

\* Lines 164-173: loop condition, abort check, waitForResume. waitForResume
\* reads the isPaused of the render that created this processData.
IterTop(run, ctl, ab) ==
  IF LoopOver(run) THEN Finish(run, "complete")
  ELSE IF ctl \in ab THEN Finish(run, "abort")
  ELSE IF run.isPaused THEN [run EXCEPT !.pc = "blocked"]
  ELSE IssueFetch(run, ctl, ab)

\* Variant of Continue without the finally block.
ContinueNoFinally(r, newrun, loading, paused, pref) ==
  /\ runs' = [runs EXCEPT ![r] = newrun]
  /\ isLoading' = loading
  /\ isPaused' = paused
  /\ pauseResolveRef' = IF newrun.pc = "blocked" THEN r ELSE pref

\* What a step of run r leaves in the shared state: its record, the finally
\* block's setIsLoading(false)/setIsPaused(false), waitForResume's ref.
Continue(r, newrun, loading, paused, pref) ==
  /\ runs' = [runs EXCEPT ![r] = newrun]
  /\ isLoading' = IF newrun.pc = "done" THEN FALSE ELSE loading
  /\ isPaused' = IF newrun.pc = "done" THEN FALSE ELSE paused
  /\ pauseResolveRef' = IF newrun.pc = "blocked" THEN r ELSE pref

\* `data` of line 189 for the request of the run: the body the route has answered
\* with when the request went through it, the API's answer otherwise.
ResponseData(run) ==
  IF server.pc = "responded" /\ server.via = "post"
  THEN server.body
  ELSE AnswerOf(FormatTicker(CurTicker(run)), DateFor(CurYear(run)))

\* Lines 185-219: classify the response into the accumulators. In a row, run and
\* seq are history: the run that made the request and the request's number in it;
\* the other fields of a results row are those of the answer (200-203).
ResultRow(r, run) ==
  [run |-> r, seq |-> Len(run.issued), year |-> CurYear(run)] @@ ResponseData(run)

ErrorRow(r, run, msg) ==
  [run |-> r, seq |-> Len(run.issued), ticker |-> CurTicker(run), year |-> CurYear(run),
   date |-> DateFor(CurYear(run)), error |-> msg]

Classify(r, run, outcome) ==
  CASE outcome = "ok" ->
         [run EXCEPT !.allResults = Append(@, ResultRow(r, run))]
    [] outcome = "err200" ->
         [run EXCEPT !.allErrors = Append(@, ErrorRow(r, run, BodyErrorMessage)),
                     !.failed = @ + 1]
    [] outcome = "http" ->
         [run EXCEPT !.allErrors = Append(@, ErrorRow(r, run, HttpErrorMessage)),
                     !.failed = @ + 1]
    [] outcome = "net" ->
         [run EXCEPT !.allErrors = Append(@, ErrorRow(r, run, NetworkErrorMessage)),
                     !.failed = @ + 1]

\* Variant of CountCompleted that counts the successful items only.
CountCompletedSuccessOnly(run) == [run EXCEPT !.completed = Len(run.allResults)]

\* Line 221: completed++
CountCompleted(run) == [run EXCEPT !.completed = @ + 1]

\* Variant of AfterItem that leaves the loop after the first failed item.
AfterItemBreakOnError(run, ctl, ab) ==
  IF run.failed > 0
  THEN Finish(run, "complete")
  ELSE IF run.delay > 0
       THEN [run EXCEPT !.pc = "sleep", !.sig = NoController]
       ELSE IterTop(NextPos([run EXCEPT !.sig = NoController]), ctl, ab)

\* Lines 226-229: the delay after each item.
AfterItem(run, ctl, ab) ==
  IF run.delay > 0
  THEN [run EXCEPT !.pc = "sleep", !.sig = NoController]
  ELSE IterTop(NextPos([run EXCEPT !.sig = NoController]), ctl, ab)

\* ------------------------------------------------------------------ actions
\* processData (128-240), up to its first pending await.
ProcessData ==
  /\ ~isLoading
  /\ nruns < MaxRuns
  /\ IF Len(Trim(tickers)) = 0
     THEN /\ alerted' = TRUE
          /\ UNCHANGED <<tickers, startYear, endYear, delay, results, errors, isLoading,
                         isPaused, progress, abortControllerRef, aborted,
                         pauseResolveRef, runs, nruns, server, upstream, downloaded>>
     ELSE LET r == nruns + 1
              tl == ParseTickerList(tickers)
              ys == YearsOf(startYear, endYear)
              run0 == [NotStarted EXCEPT !.tickerList = tl, !.years = ys,
                                         !.delay = delay, !.isPaused = isPaused,
                                         !.totalRequests = Len(tl) * Len(ys)]
              newrun == IterTop(FirstPos(run0), r, aborted)
          IN /\ results' = <<>>
             /\ errors' = <<>>
             /\ abortControllerRef' = r
             /\ progress' = [completed |-> 0, total |-> run0.totalRequests, failed |-> 0]
             /\ nruns' = r
             /\ Continue(r, newrun, TRUE, FALSE, pauseResolveRef)
             /\ UNCHANGED <<tickers, startYear, endYear, delay, aborted, alerted,
                            server, upstream, downloaded>>

\* Variant of Receive that publishes after every second item only.
ReceivePublishEverySecond(r, outcome) ==
  /\ runs[r].pc = "fetch"
  /\ LET run1 == CountCompleted(Classify(r, runs[r], outcome))
         newrun == AfterItem(run1, abortControllerRef, aborted)
         publish == run1.completed % 2 = 0
     IN /\ progress' = IF publish
                       THEN [completed |-> run1.completed, total |-> run1.totalRequests,
                             failed |-> run1.failed]
                       ELSE progress
        /\ results' = IF publish THEN run1.allResults ELSE results
        /\ errors' = IF publish THEN run1.allErrors ELSE errors
        /\ Continue(r, newrun, isLoading, isPaused, pauseResolveRef)
  /\ UNCHANGED <<tickers, startYear, endYear, delay, abortControllerRef, aborted,
                 nruns, alerted, server, upstream, downloaded>>

\* Lines 185-229: the fetch of run r has settled with the given outcome; the item
\* is classified, counted and published, and the loop goes on.
Receive(r, outcome) ==
  /\ runs[r].pc = "fetch"
  /\ LET run1 == CountCompleted(Classify(r, runs[r], outcome))
         newrun == AfterItem(run1, abortControllerRef, aborted)
     IN /\ progress' = [completed |-> run1.completed, total |-> run1.totalRequests,
                        failed |-> run1.failed]
        /\ results' = run1.allResults
        /\ errors' = run1.allErrors
        /\ Continue(r, newrun, isLoading, isPaused, pauseResolveRef)
  /\ UNCHANGED <<tickers, startYear, endYear, delay, abortControllerRef, aborted,
                 nruns, alerted, server, upstream, downloaded>>

\* The fetch of run r settles otherwise than by an abort, with the answer the
\* behaviour's upstream gives for the ticker.
FetchReturn(r) == Receive(r, upstream[CurTicker(runs[r])])

\* The timer of sleep(delay) fires (123-125, 228) and the loop goes on.
SleepDone(r) ==
  /\ runs[r].pc = "sleep"
  /\ Continue(r, IterTop(NextPos(runs[r]), abortControllerRef, aborted),
              isLoading, isPaused, pauseResolveRef)
  /\ UNCHANGED <<tickers, startYear, endYear, delay, results, errors, progress,
                 abortControllerRef, aborted, nruns, alerted, server, upstream, downloaded>>

\* Variant of HandlePause that also aborts the request in flight.
HandlePauseAborting ==
  /\ isLoading
  /\ ~isPaused
  /\ isPaused' = TRUE
  /\ aborted' = IF abortControllerRef # NoController
                THEN aborted \cup {abortControllerRef} ELSE aborted
  /\ runs' = [r \in RunIds |->
               IF runs[r].pc = "fetch" /\ runs[r].sig \in aborted'
               THEN Finish(runs[r], "abort") ELSE runs[r]]
  /\ UNCHANGED <<tickers, startYear, endYear, delay, results, errors, isLoading,
                 progress, abortControllerRef, pauseResolveRef, nruns,
                 alerted, server, upstream, downloaded>>

\* Variant of HandlePause whose button is rendered at all times.
HandlePauseAnyTime ==
  /\ ~isPaused
  /\ isPaused' = TRUE
  /\ UNCHANGED <<tickers, startYear, endYear, delay, results, errors, isLoading,
                 progress, abortControllerRef, aborted, pauseResolveRef, runs, nruns,
                 alerted, server, upstream, downloaded>>

\* handlePause (243-245); the button is rendered while isLoading && !isPaused.
HandlePause ==
  /\ isLoading
  /\ ~isPaused
  /\ isPaused' = TRUE
  /\ UNCHANGED <<tickers, startYear, endYear, delay, results, errors, isLoading,
                 progress, abortControllerRef, aborted, pauseResolveRef, runs, nruns,
                 alerted, server, upstream, downloaded>>

\* handleResume (247-253); the button is rendered while isLoading && isPaused.
HandleResume ==
  /\ isLoading
  /\ isPaused
  /\ LET marked == [r \in RunIds |->
                      IF Live(runs[r]) THEN [runs[r] EXCEPT !.resumed = TRUE] ELSE runs[r]]
         p == pauseResolveRef
         woken == IF p # NoRun /\ marked[p].pc = "blocked"
                  THEN [marked EXCEPT ![p] = IssueFetch(marked[p], abortControllerRef, aborted)]
                  ELSE marked
     IN /\ runs' = woken
        /\ isLoading' = IF p # NoRun /\ woken[p].pc = "done" THEN FALSE ELSE isLoading
  /\ isPaused' = FALSE
  /\ pauseResolveRef' = NoRun
  /\ UNCHANGED <<tickers, startYear, endYear, delay, results, errors, progress,
                 abortControllerRef, aborted, nruns, alerted, server, upstream, downloaded>>

\* handleStop (256-266); the button is rendered while isLoading. abort()
\* rejects every fetch that was given the signal of the ref's controller, and
\* resolving the pending waitForResume lets that run reach its fetch, which
\* the aborted signal rejects at once.
HandleStop ==
  /\ isLoading
  /\ LET ctl == abortControllerRef
         ab == IF ctl # NoController THEN aborted \cup {ctl} ELSE aborted
         marked == [r \in RunIds |->
                      IF Live(runs[r]) THEN [runs[r] EXCEPT !.stopped = TRUE] ELSE runs[r]]
     IN /\ aborted' = ab
        /\ runs' = [r \in RunIds |->
                     IF marked[r].pc = "fetch" /\ marked[r].sig \in ab
                     THEN Finish(marked[r], "abort")
                     ELSE IF marked[r].pc = "blocked" /\ pauseResolveRef = r
                     THEN IssueFetch(marked[r], ctl, ab)
                     ELSE marked[r]]
  /\ isLoading' = FALSE
  /\ isPaused' = FALSE
  /\ pauseResolveRef' = NoRun
  /\ UNCHANGED <<tickers, startYear, endYear, delay, results, errors, progress,
                 abortControllerRef, nruns, alerted, server, upstream, downloaded>>

Next ==
  \/ ProcessData
  \/ HandlePause
  \/ HandleResume
  \/ HandleStop
  \/ \E r \in RunIds : FetchReturn(r)
  \/ \E r \in RunIds : SleepDone(r)

Spec == Init /\ [][Next]_vars

\* ============================================== one request and its answer
\* A second specification follows one request through the route, from its
\* arrival to the row the component records for it. The environment is drawn
\* in the initial state: the time zone of the server process, whether the API
\* token is configured, and what the end-of-day endpoint answers for the
\* requested date and the six days after it.

\* The React state and refs of the component.
clientVars == <<tickers, startYear, endYear, delay, results, errors, isLoading, isPaused,
                progress, abortControllerRef, aborted, pauseResolveRef, runs, nruns,
                alerted, upstream, downloaded>>

\* Requests the batch loop sends: the ticker text and the single year of a run.
BatchRequests == {[text |-> t, year |-> y] : t \in {"aapl", "ZZZZ"}, y \in {2009, 2024}}

\* Requests sent to the route by another caller: any ticker and date.
DirectRequests ==
  {[ticker |-> t, date |-> d] :
     t \in {"AAPL", "ZZZZ"},
     d \in {<<2024, 2, 27>>, <<2024, 3, 8>>, <<2023, 12, 29>>}}
    \cup {[ticker |-> "ASML.AS", date |-> <<2024, 2, 27>>]}
    \cup {[ticker |-> "AAPL", date |-> NoDate], [ticker |-> "", date |-> <<2024, 2, 27>>]}

\* Number of days from the requested date on for which the upstream's answer is
\* fixed: one more than the route may try.
WindowDays == 6

\* The answers of the end-of-day endpoint: the first date with data is
\* `first` days after the requested one (none if first > WindowDays), the dates
\* before it answer `kind`, the dates after it have no data.
PriceWorld(date, first, kind) ==
  IF date = NoDate THEN <<>>
  ELSE LET window == {AddDays(date, i) : i \in 0..WindowDays}
           offset(d) == CHOOSE i \in 0..WindowDays : AddDays(date, i) = d
       IN [d \in window |->
             IF offset(d) = first THEN "data"
             ELSE IF offset(d) < first THEN kind ELSE "empty"]

PriceWorlds(date) ==
  {PriceWorld(date, first, kind) :
     first \in 0..(WindowDays + 1), kind \in PriceKinds \ {"data"}}

\* The run of processData that is waiting for the answer to its only request.
WaitingRun(text, year) ==
  LET tl == ParseTickerList(text)
      ys == YearsOf(year, year)
      run0 == [NotStarted EXCEPT !.tickerList = tl, !.years = ys,
                                 !.totalRequests = Len(tl) * Len(ys)]
  IN IterTop(FirstPos(run0), 1, {})

ServerInit ==
  /\ results = <<>>
  /\ errors = <<>>
  /\ isPaused = FALSE
  /\ aborted = {}
  /\ pauseResolveRef = NoRun
  /\ alerted = FALSE
  /\ delay = 0
  /\ upstream = [t \in TickerNames |-> "ok"]
  /\ downloaded = NoDownload
  /\ \E zone \in Zones, token \in BOOLEAN :
       \/ \E q \in BatchRequests :
            LET run == WaitingRun(q.text, q.year)
                sent == run.issued[1]
            IN /\ tickers = q.text
               /\ startYear = q.year
               /\ endYear = q.year
               /\ isLoading = TRUE
               /\ progress = [completed |-> 0, total |-> run.totalRequests, failed |-> 0]
               /\ abortControllerRef = 1
               /\ nruns = 1
               /\ runs = [r \in RunIds |-> IF r = 1 THEN run ELSE NotStarted]
               /\ \E prices \in PriceWorlds(sent.date) :
                    server = [ServerIdle EXCEPT !.pc = "post", !.via = "post", !.zone = zone,
                                                !.token = token, !.ticker = sent.ticker,
                                                !.date = sent.date, !.year = sent.year,
                                                !.prices = prices]
       \/ \E q \in DirectRequests, pc \in {"post", "getMarketCap"} :
            /\ pc = "getMarketCap" => q.date # NoDate
            /\ tickers = ""
            /\ startYear = 2010
            /\ endYear = 2025
            /\ isLoading = FALSE
            /\ progress = [completed |-> 0, total |-> 0, failed |-> 0]
            /\ abortControllerRef = NoController
            /\ nruns = 0
            /\ runs = [r \in RunIds |-> NotStarted]
            /\ \E prices \in PriceWorlds(q.date) :
                 server = [ServerIdle EXCEPT !.pc = pc, !.via = pc, !.zone = zone,
                                             !.token = token,
                                             !.ticker = q.ticker, !.date = q.date,
                                             !.prices = prices]

\* The request `https://eodhd.com/api/eod/${ticker}?from=${date}&to=${date}...` (538).
EodCall(symbol, date) == [endpoint |-> "eod", symbol |-> symbol, date |-> date]

\* The request `https://eodhd.com/api/fundamentals/${ticker}?...` (573).
FundamentalsCall(symbol) == [endpoint |-> "fundamentals", symbol |-> symbol, date |-> NoDate]

\* The answer of the route.
Respond(status, body) == [server EXCEPT !.pc = "responded", !.status = status, !.body = body]

\* Variant of Post that looks for the token before the ticker and the date.
PostTokenFirst ==
  /\ server.pc = "post"
  /\ server' =
       IF ~server.token
       THEN Respond(500, [error |-> "EODHD API token not configured"])
       ELSE IF server.ticker = "" \/ server.date = NoDate
       THEN Respond(400, [error |-> "Ticker and date are required"])
       ELSE [server EXCEPT !.pc = "price", !.n = 0,
                           !.formattedTicker = FormatTicker(server.ticker)]
  /\ UNCHANGED clientVars

\* POST (411-436) up to the first price lookup.
Post ==
  /\ server.pc = "post"
  /\ server' =
       IF server.ticker = "" \/ server.date = NoDate
       THEN Respond(400, [error |-> "Ticker and date are required"])
       ELSE IF ~server.token
       THEN Respond(500, [error |-> "EODHD API token not configured"])
       ELSE [server EXCEPT !.pc = "price", !.n = 0,
                           !.formattedTicker = FormatTicker(server.ticker)]
  /\ UNCHANGED clientVars

\* Variant of LookupDates without the fallback dates.
LookupDatesExactOnly(zone, requestedDate) == <<requestedDate>>

\* The dates getSplitAdjustedPriceWithFallback looks up, in order: the requested
\* date (491), then the fallback dates (503-505).
LookupDates(zone, requestedDate) ==
  <<requestedDate>> \o generateFallbackDates(zone, requestedDate)

\* Variant of TryFetchPrice in which the fundamentals are requested along with
\* the last price lookup.
TryFetchPriceSharesInParallel ==
  /\ server.pc = "price"
  /\ LET dates == LookupDates(server.zone, server.date)
         date == dates[server.n + 1]
         kind == server.prices[date]
         last == server.n + 1 >= Len(dates)
         tried == [server EXCEPT
                     !.attempts = Append(@, [date |-> date, kind |-> kind]),
                     !.calls = IF last
                               THEN @ \o <<EodCall(server.formattedTicker, date),
                                           FundamentalsCall(server.formattedTicker)>>
                               ELSE Append(@, EodCall(server.formattedTicker, date))]
     IN \E pp \in PricePairs :
          LET data == tryFetchPriceForDate(kind, date, pp)
          IN server' =
               IF data.kind = "record"
               THEN [tried EXCEPT !.pc = "shares", !.priceData = <<data>>]
               ELSE IF ~last
               THEN [tried EXCEPT !.n = @ + 1]
               ELSE [tried EXCEPT !.pc = "responded", !.status = 500,
                                  !.body = NoPriceDataBody(server.formattedTicker,
                                                           server.date)]
  /\ UNCHANGED clientVars

\* Variant of TryFetchPrice in which a failed lookup ends the request at once.
TryFetchPriceThrowFatal ==
  /\ server.pc = "price"
  /\ LET dates == LookupDates(server.zone, server.date)
         date == dates[server.n + 1]
         kind == server.prices[date]
         tried == [server EXCEPT !.attempts = Append(@, [date |-> date, kind |-> kind]),
                                 !.calls = Append(@, EodCall(server.formattedTicker, date))]
     IN \E pp \in PricePairs :
          LET data == tryFetchPriceForDate(kind, date, pp)
          IN server' =
               IF data.kind = "record"
               THEN [tried EXCEPT !.pc = "shares", !.priceData = <<data>>]
               ELSE IF data.kind # "throw" /\ server.n + 1 < Len(dates)
               THEN [tried EXCEPT !.n = @ + 1]
               ELSE [tried EXCEPT !.pc = "responded", !.status = 500,
                                  !.body = NoPriceDataBody(server.formattedTicker,
                                                           server.date)]
  /\ UNCHANGED clientVars

\* A price lookup settles (488-519, 438-441): a record ends the search, anything
\* else moves on to the next date, and after the last date the route answers 500.
TryFetchPrice ==
  /\ server.pc = "price"
  /\ LET dates == LookupDates(server.zone, server.date)
         date == dates[server.n + 1]
         kind == server.prices[date]
         tried == [server EXCEPT !.attempts = Append(@, [date |-> date, kind |-> kind]),
                                 !.calls = Append(@, EodCall(server.formattedTicker, date))]
     IN \E pp \in PricePairs :
          LET data == tryFetchPriceForDate(kind, date, pp)
          IN server' =
               IF data.kind = "record"
               THEN [tried EXCEPT !.pc = "shares", !.priceData = <<data>>]
               ELSE IF server.n + 1 < Len(dates)
               THEN [tried EXCEPT !.n = @ + 1]
               ELSE [tried EXCEPT !.pc = "responded", !.status = 500,
                                  !.body = NoPriceDataBody(server.formattedTicker,
                                                           server.date)]
  /\ UNCHANGED clientVars

\* The fundamentals lookup settles (443-471) and the route answers 200.
GetShares ==
  /\ server.pc = "shares"
  /\ \E resp \in FundResponses :
       LET found == getSharesOutstanding(resp)
           sharesOutstanding == IF found = Absent
                                THEN getDefaultSharesOutstanding(server.formattedTicker)
                                ELSE found[1]
           result == MarketCapResult(server.formattedTicker, server.priceData[1],
                                     sharesOutstanding)
       IN server' = [server EXCEPT !.pc = "responded", !.fund = <<resp>>,
                                   !.calls = Append(@, FundamentalsCall(server.formattedTicker)),
                                   !.status = 200, !.body = result]
  /\ UNCHANGED clientVars

\* The component receives the route's answer (MarketCapForm.tsx 185-229).
ServerFetchReturn ==
  /\ server.pc = "responded"
  /\ Receive(1, ClientOutcome(server.status, server.body))

\* EODHDClient.getMarketCap (796-825): both lookups, then the record; status 0
\* stands for the promise being rejected.
GetMarketCap ==
  /\ server.pc = "getMarketCap"
  /\ \E resp \in FundResponses, pp \in PricePairs :
       LET kind == server.prices[server.date]
           price == clientGetHistoricalPrice(kind, pp)
           shares == clientGetSharesOutstanding(resp)
           quote == [date |-> server.date, close |-> pp[1], adjusted_close |-> pp[2]]
           symbol == FormatTicker(server.ticker)
           asked == [server EXCEPT !.attempts = <<[date |-> server.date, kind |-> kind]>>,
                                   !.calls = <<EodCall(symbol, server.date),
                                               FundamentalsCall(symbol)>>,
                                   !.fund = <<resp>>,
                                   !.formattedTicker = FormatTicker(server.ticker)]
       IN server' =
            IF price.kind = "throw" \/ shares.kind = "throw"
            THEN [asked EXCEPT !.pc = "responded", !.status = 0, !.body = NoBody]
            ELSE [asked EXCEPT !.pc = "responded", !.status = 200,
                               !.priceData = <<quote>>,
                               !.body = clientMarketCapResult(server.ticker, server.date,
                                                              price.price, shares.shares)]
  /\ UNCHANGED clientVars

ServerNext ==
  \/ Post
  \/ TryFetchPrice
  \/ GetShares
  \/ ServerFetchReturn
  \/ GetMarketCap

ServerSpec == ServerInit /\ [][ServerNext]_vars

\* ================================================================ FairSpec
\* The component when every request returns, every timer fires and every pause
\* is followed by a resume or a stop: fetch settles (178-183), setTimeout fires
\* (123-125), and the user does not leave the batch paused for ever.
Fairness ==
  /\ \A r \in RunIds : WF_vars(FetchReturn(r))
  /\ \A r \in RunIds : WF_vars(SleepDone(r))
  /\ WF_vars(HandleResume)

\* Number of times processData may be started in a behaviour of FairSpec.
MaxFairRuns == 2

\* One ticker over two years, with and without a delay.
FairInit ==
  /\ Init
  /\ tickers = "ZZZZ"
  /\ startYear = 2009
  /\ endYear = 2010
  /\ upstream = [t \in TickerNames |-> IF t = "AAPL" THEN "ok" ELSE "err200"]

\* The Start button (493-500).
FairStart ==
  /\ nruns < MaxFairRuns
  /\ ProcessData

FairNext ==
  \/ FairStart
  \/ HandlePause
  \/ HandleResume
  \/ HandleStop
  \/ \E r \in RunIds : FetchReturn(r)
  \/ \E r \in RunIds : SleepDone(r)

FairSpec == FairInit /\ [][FairNext]_vars /\ Fairness

\* ========================================================= PausedStopSpec
\* The component under a user who presses Stop only while the batch is paused.

\* The Stop button (520-526) pressed while the Resume button is shown.
StopWhilePaused ==
  /\ isPaused
  /\ HandleStop

PausedStopNext ==
  \/ ProcessData
  \/ HandlePause
  \/ HandleResume
  \/ StopWhilePaused
  \/ \E r \in RunIds : FetchReturn(r)
  \/ \E r \in RunIds : SleepDone(r)

PausedStopSpec == Init /\ [][PausedStopNext]_vars

\* ============================================================== ExportSpec
\* The component with its year inputs and its pivot exports.

\* Number of times processData may be started in a behaviour with exports.
MaxExportRuns == 1

\* Texts of the ticker textarea: two tickers out of alphabetical order, the
\* same ticker twice, and a ticker with an exchange suffix of its own.
ExportTickerInputs == {"ZZZZ aapl", "aapl AAPL", "asml.as aapl"}

ExportTickerNames == {"AAPL", "ZZZZ", "ASML.AS"}

\* Values typed into the two year inputs.
ExportYearInputs == {2009, 2010, 2011}

ExportInit ==
  /\ tickers \in ExportTickerInputs
  /\ startYear = 2009
  /\ endYear = 2010
  /\ delay = 0
  /\ results = <<>>
  /\ errors = <<>>
  /\ isLoading = FALSE
  /\ isPaused = FALSE
  /\ progress = [completed |-> 0, total |-> 0, failed |-> 0]
  /\ abortControllerRef = NoController
  /\ aborted = {}
  /\ pauseResolveRef = NoRun
  /\ runs = [r \in RunIds |-> NotStarted]
  /\ nruns = 0
  /\ alerted = FALSE
  /\ server = ServerIdle
  /\ \E z \in {"ok", "http"} :
       upstream = [t \in ExportTickerNames |-> IF t = "ZZZZ" THEN z ELSE "ok"]
  /\ downloaded = NoDownload

\* The Start button (493-500).
ExportStart ==
  /\ nruns < MaxExportRuns
  /\ ProcessData

\* onChange of the Start Year input (421-428), disabled while loading.
SetStartYear(y) ==
  /\ ~isLoading
  /\ startYear' = y
  /\ UNCHANGED <<tickers, endYear, delay, results, errors, isLoading, isPaused, progress,
                 abortControllerRef, aborted, pauseResolveRef, runs, nruns, alerted,
                 server, upstream, downloaded>>

\* onChange of the End Year input (433-440), disabled while loading.
SetEndYear(y) ==
  /\ ~isLoading
  /\ endYear' = y
  /\ UNCHANGED <<tickers, startYear, delay, results, errors, isLoading, isPaused, progress,
                 abortControllerRef, aborted, pauseResolveRef, runs, nruns, alerted,
                 server, upstream, downloaded>>

\* exportPricesCsv, exportMarketCapCsv and exportSharesCsv (302-318): the
\* buttons are rendered while results holds a row (560); downloadCsv gets the
\* text of the pivot. table and of are history: the pivot and the results it
\* was made of.
ExportPivotCsv(field) ==
  /\ Len(results) > 0
  /\ LET csvData == createPivotData(results, field, startYear, endYear)
     IN downloaded' = [filename |-> ExportFileName[field],
                       content |-> CsvContent(csvData),
                       table |-> csvData,
                       of |-> results]
  /\ UNCHANGED <<tickers, startYear, endYear, delay, results, errors, isLoading,
                 isPaused, progress, abortControllerRef, aborted, pauseResolveRef,
                 runs, nruns, alerted, server, upstream>>

ExportNext ==
  \/ ExportStart
  \/ HandleStop
  \/ \E r \in RunIds : FetchReturn(r)
  \/ \E y \in ExportYearInputs : SetStartYear(y)
  \/ \E y \in ExportYearInputs : SetEndYear(y)
  \/ \E field \in PivotFields : ExportPivotCsv(field)

ExportSpec == ExportInit /\ [][ExportNext]_vars

\* =================================================================== claims
\* The request space of a batch in ticker-major order.
RequestSpace(tl, ys) ==
  [k \in 1..(Len(tl) * Len(ys)) |->
     [ticker |-> tl[((k - 1) \div Len(ys)) + 1], year |-> ys[((k - 1) % Len(ys)) + 1]]]

Increasing(rows) ==
  \A i, j \in DOMAIN rows : i < j => rows[i].seq < rows[j].seq

AllYearsConfigured(run) == \A i \in DOMAIN run.years : run.years[i] \in ConfiguredYears

\* C1 (as stated): a run that completes naturally, every year of its range having a
\* configured date, ends with completed + failed = total = |tickers| * |years|.
C1_CompletedPlusFailed ==
  \A r \in RunIds :
    (runs[r].endedBy = "complete" /\ AllYearsConfigured(runs[r]))
      => /\ runs[r].completed + runs[r].failed = runs[r].totalRequests
         /\ runs[r].totalRequests = Len(runs[r].tickerList) * Len(runs[r].years)

\* C1 (amended): a run that completes naturally ends with completed = total =
\* |tickers| * |years|; completed counts every processed item, failed the failed
\* ones, so completed - failed is the number of successes.
C1_CompletedIsTotal ==
  \A r \in RunIds :
    runs[r].endedBy = "complete"
      => /\ runs[r].completed = runs[r].totalRequests
         /\ runs[r].totalRequests = Len(runs[r].tickerList) * Len(runs[r].years)
         /\ runs[r].failed = Len(runs[r].allErrors)
         /\ runs[r].completed - runs[r].failed = Len(runs[r].allResults)

\* 2 successes and 2 failures out of 4 requests end as completed = 4, failed = 2.
C1_Witness ==
  \E r \in RunIds :
    /\ runs[r].endedBy = "complete"
    /\ runs[r].totalRequests = 4
    /\ Len(runs[r].allResults) = 2
    /\ runs[r].completed = 4
    /\ runs[r].failed = 2

\* C2: at every moment at most one batch loop is executing and at most one
\* request is in flight.
C2_SingleLoop ==
  /\ Cardinality({r \in RunIds : Live(runs[r])}) <= 1
  /\ Cardinality({r \in RunIds : runs[r].pc = "fetch"}) <= 1

\* C3: once stop() was invoked during a run, that run begins no further request.
C3_NoRequestAfterStop ==
  [][\A r \in RunIds :
       runs[r].stopped => Len(runs'[r].issued) = Len(runs[r].issued)]_vars

\* C4: from stop() until the next start(), the published results, errors and
\* counters stay as they were.
C4_StopKeepsData ==
  [][(abortControllerRef \in aborted' /\ nruns' = nruns)
       => (results' = results /\ errors' = errors /\ progress' = progress)]_vars

\* C5: while the batch is paused, no run begins a request.
C5_PauseBlocks ==
  [][(isPaused /\ isPaused')
       => \A r \in RunIds : Len(runs'[r].issued) = Len(runs[r].issued)]_vars

\* C6: a run that completes, paused and resumed or not, has requested exactly
\* the keys of its request space in order, and its results and errors are the
\* ones the upstream's answers determine; a batch made of that single run has
\* published them.
C6_PauseTransparent ==
  /\ \A r \in RunIds :
       runs[r].endedBy = "complete"
         => LET run == runs[r]
                space == RequestSpace(run.tickerList, run.years)
            IN /\ Len(run.issued) = Len(space)
               /\ \A k \in DOMAIN space :
                    /\ run.issued[k].ticker = space[k].ticker
                    /\ run.issued[k].year = space[k].year
                    /\ IF upstream[space[k].ticker] = "ok"
                       THEN /\ \E i \in DOMAIN run.allResults :
                                 /\ run.allResults[i].seq = k
                                 /\ run.allResults[i].year = space[k].year
                                 /\ run.allResults[i].ticker = space[k].ticker \o ".US"
                            /\ \A i \in DOMAIN run.allErrors : run.allErrors[i].seq # k
                       ELSE /\ \E i \in DOMAIN run.allErrors :
                                 /\ run.allErrors[i].seq = k
                                 /\ run.allErrors[i].year = space[k].year
                                 /\ run.allErrors[i].ticker = space[k].ticker
                            /\ \A i \in DOMAIN run.allResults : run.allResults[i].seq # k
               /\ Len(run.allResults) + Len(run.allErrors) = Len(space)
               /\ Increasing(run.allResults)
               /\ Increasing(run.allErrors)
  /\ (nruns = 1 /\ runs[1].endedBy = "complete")
       => (results = runs[1].allResults /\ errors = runs[1].allErrors)

\* A run of four requests completed although resume() was invoked during it.
C6_Witness ==
  \E r \in RunIds :
    /\ runs[r].endedBy = "complete"
    /\ runs[r].resumed
    /\ Len(runs[r].issued) = 4

\* C7: start() empties results and errors, zeroes the counters and sets total to
\* the size of the new request space, and from then on the published results and
\* errors hold rows of the run started last only.
C7_FreshRun ==
  [][/\ (nruns' = nruns + 1)
          => /\ results' = <<>>
             /\ errors' = <<>>
             /\ progress' = [completed |-> 0,
                             total |-> Len(runs'[nruns'].tickerList) * Len(runs'[nruns'].years),
                             failed |-> 0]
     /\ \A i \in DOMAIN results' : results'[i].run = nruns'
     /\ \A i \in DOMAIN errors' : errors'[i].run = nruns']_vars

C9_TickerMajor ==
  \A r \in RunIds :
    LET run == runs[r]
        is == run.issued
        ys == run.years
    IN /\ Len(is) > 0 => (is[1].ti = 1 /\ is[1].year = ys[1])
       /\ \A k \in DOMAIN is : is[k].ticker = run.tickerList[is[k].ti]
       /\ \A k \in 1..(Len(is) - 1) :
            \/ /\ is[k + 1].ti = is[k].ti
               /\ is[k + 1].year = is[k].year + 1
            \/ /\ is[k + 1].ti = is[k].ti + 1
               /\ is[k].year = ys[Len(ys)]
               /\ is[k + 1].year = ys[1]
       /\ Increasing(run.allResults)
       /\ Increasing(run.allErrors)
       /\ \A i \in DOMAIN run.allResults :
            is[run.allResults[i].seq].year = run.allResults[i].year
       /\ \A i \in DOMAIN run.allErrors :
            is[run.allErrors[i].seq].year = run.allErrors[i].year

\* Two tickers and two years requested to the end: both years of the first
\* ticker, then both years of the second.
C9_Witness ==
  \E r \in RunIds :
    /\ Len(runs[r].issued) = 4
    /\ runs[r].issued[2].ti = 1
    /\ runs[r].issued[3].ti = 2
    /\ runs[r].issued[2].year = runs[r].issued[1].year + 1
    /\ runs[r].endedBy = "complete"

\* C10 (as stated): no request is made for a year that has no entry in the
\* year-to-date map.
C10_NoRequestWithoutDate ==
  \A r \in RunIds :
    \A k \in DOMAIN runs[r].issued : runs[r].issued[k].year \in ConfiguredYears

\* C10 (amended): a pair whose year has no entry in the map is requested with the
\* date January 2 of that year, and every recorded row, result or error, comes
\* from a request that was made, with that request's year and date.
C10_DefaultDateRequested ==
  \A r \in RunIds :
    LET run == runs[r]
    IN /\ \A k \in DOMAIN run.issued :
            IF run.issued[k].year \in ConfiguredYears
            THEN run.issued[k].date = startOfYearDates[run.issued[k].year]
            ELSE run.issued[k].date = <<run.issued[k].year, 1, 2>>
       /\ \A i \in DOMAIN run.allResults :
            /\ run.allResults[i].seq \in DOMAIN run.issued
            /\ run.issued[run.allResults[i].seq].year = run.allResults[i].year
       /\ \A i \in DOMAIN run.allErrors :
            /\ run.allErrors[i].seq \in DOMAIN run.issued
            /\ run.issued[run.allErrors[i].seq].year = run.allErrors[i].year
            /\ run.issued[run.allErrors[i].seq].date = run.allErrors[i].date

\* A published result row for 2009, a year the map has no entry for.
C10_Witness ==
  \E i \in DOMAIN results :
    /\ results[i].year \notin ConfiguredYears
    /\ \E r \in RunIds : \E k \in DOMAIN runs[r].issued :
         runs[r].issued[k].date = <<results[i].year, 1, 2>>

\* Every character of the text is whitespace (the empty text included).
Blank(text) == \A i \in 1..Len(text) : IsSpace(CharAt(text, i))

\* C11: start() with an empty or whitespace-only ticker text, or with an end year
\* before the start year, issues no request at all; in the first case nothing is
\* started, in the second the run ends at once with total = 0.
C11_NoRequestOnEmptyInput ==
  /\ Blank(tickers)
       => /\ nruns = 0
          /\ \A r \in RunIds : runs[r] = NotStarted
          /\ ~isLoading
  /\ endYear < startYear
       => \A r \in RunIds :
            /\ runs[r].issued = <<>>
            /\ runs[r].pc \in {"none", "done"}
            /\ runs[r].totalRequests = 0
  /\ (\E r \in RunIds : runs[r].pc = "fetch") => (~Blank(tickers) /\ startYear <= endYear)

\* start() was invoked with tickers and the range 2010..2009: the run is over and
\* has requested nothing.
C11_Witness ==
  /\ endYear < startYear
  /\ \E r \in RunIds :
       /\ runs[r].pc = "done"
       /\ Len(runs[r].tickerList) > 0
       /\ runs[r].issued = <<>>

\* start() was invoked with a whitespace-only text: the alert was shown and
\* nothing was started.
C11_WitnessBlank ==
  /\ alerted
  /\ tickers = " "
  /\ nruns = 0

\* C12: a failed item never stops the batch: a run during which stop() was not
\* invoked goes from every failed item to the next key, and when it is over it has
\* requested and recorded every key of its request space.
C12_ErrorDoesNotStop ==
  \A r \in RunIds :
    ~runs[r].stopped
      => LET run == runs[r]
             space == RequestSpace(run.tickerList, run.years)
             recorded == Len(run.allResults) + Len(run.allErrors)
         IN /\ run.endedBy # "abort"
            /\ run.pc = "fetch" => Len(run.issued) = recorded + 1
            /\ run.pc = "sleep" => (Len(run.issued) = recorded /\ recorded <= Len(space))
            /\ run.pc = "done"
                 => /\ run.endedBy = "complete"
                    /\ Len(run.issued) = Len(space)
                    /\ recorded = Len(space)
                    /\ \A k \in DOMAIN space :
                         /\ run.issued[k].ticker = space[k].ticker
                         /\ run.issued[k].year = space[k].year

\* A run that was never stopped went through four failed items, two network
\* failures and two HTTP errors, to its end.
C12_Witness ==
  \E r \in RunIds :
    /\ ~runs[r].stopped
    /\ runs[r].endedBy = "complete"
    /\ Len(runs[r].allErrors) = 4
    /\ runs[r].allErrors[1].error = NetworkErrorMessage
    /\ runs[r].allErrors[3].error = HttpErrorMessage

\* C13: a request that stop() interrupts is not recorded: the run's results, errors,
\* completed and failed stay as they were, nothing is published, and the run's
\* loop ends.
C13_AbortNotRecorded ==
  [][\A r \in RunIds :
       (runs[r].pc = "fetch" /\ runs[r].sig \in aborted' /\ runs[r].sig \notin aborted)
         => /\ runs'[r].pc = "done"
            /\ runs'[r].endedBy = "abort"
            /\ runs'[r].allResults = runs[r].allResults
            /\ runs'[r].allErrors = runs[r].allErrors
            /\ runs'[r].completed = runs[r].completed
            /\ runs'[r].failed = runs[r].failed
            /\ runs'[r].issued = runs[r].issued
            /\ results' = results
            /\ errors' = errors
            /\ progress' = progress]_vars

\* A run ended by stop() during its second request: two requests begun, one item
\* recorded.
C13_Witness ==
  \E r \in RunIds :
    /\ runs[r].endedBy = "abort"
    /\ runs[r].stopped
    /\ Len(runs[r].issued) = 2
    /\ runs[r].completed = 1
    /\ Len(runs[r].allResults) + Len(runs[r].allErrors) = 1
    /\ runs[r].completed + 1 = Len(runs[r].issued)

\* The route has looked up prices for the request and the lookup is over.
PriceLookupOver ==
  /\ server.via = "post"
  /\ server.attempts # <<>>
  /\ server.pc \in {"shares", "responded"}

\* The route has answered with a record.
RouteRecord == server.via = "post" /\ server.pc = "responded" /\ server.status = 200

\* No date from the requested one to FallbackDays later has price data.
NoDataInWindow ==
  \A i \in 0..FallbackDays : server.prices[AddDays(server.date, i)] # "data"

\* C14: each processed key yields exactly one entry: when the price lookup finds
\* no data for the requested date and the 5 dates after it, one errors row with
\* the key's ticker, year and requested date and a message, and no results row;
\* when it finds data, one results row and no errors row.
C14_OneEntryPerKey ==
  (server.year # 0 /\ runs[1].pc = "done")
    => LET run == runs[1]
       IN /\ Len(run.allResults) + Len(run.allErrors) = 1
          /\ results = run.allResults
          /\ errors = run.allErrors
          /\ (server.token /\ NoDataInWindow)
               => /\ server.priceData = <<>>
                  /\ Len(run.allErrors) = 1
                  /\ run.allResults = <<>>
                  /\ run.allErrors[1].ticker = server.ticker
                  /\ run.allErrors[1].year = server.year
                  /\ run.allErrors[1].date = server.date
                  /\ Len(run.allErrors[1].error) > 0
          /\ (server.token /\ ~NoDataInWindow)
               => /\ server.priceData # <<>>
                  /\ Len(run.allResults) = 1
                  /\ run.allErrors = <<>>
                  /\ run.allResults[1].ticker = server.body.ticker
                  /\ run.allResults[1].year = server.year

\* A key for which six dates were looked up and none had data: one errors row.
C14_Witness ==
  /\ server.year # 0
  /\ runs[1].pc = "done"
  /\ server.token
  /\ NoDataInWindow
  /\ Len(server.attempts) = 6
  /\ Len(errors) = 1
  /\ results = <<>>

\* A key whose data was found three days after the requested date: one results row.
C14_WitnessFallback ==
  /\ server.year # 0
  /\ runs[1].pc = "done"
  /\ Len(server.attempts) = 4
  /\ Len(results) = 1
  /\ errors = <<>>

\* C15: when the requested date has no price data and k is the smallest value in
\* 1..5 for which requested date + k has data, the resolved record's date is
\* requested date + k; the dates are looked up in increasing order, at most 6 of
\* them, and none after requested date + 5.
C15_FallbackDate ==
  PriceLookupOver
    => LET date == server.date
           at == server.attempts
       IN /\ Len(at) <= FallbackDays + 1
          /\ \A i \in DOMAIN at : ~DateLess(AddDays(date, FallbackDays), at[i].date)
          /\ \A i, j \in DOMAIN at : i < j => DateLess(at[i].date, at[j].date)
          /\ \A k \in 1..FallbackDays :
               (/\ server.prices[AddDays(date, k)] = "data"
                /\ \A i \in 0..(k - 1) : server.prices[AddDays(date, i)] # "data")
                 => /\ server.priceData # <<>>
                    /\ server.priceData[1].date = AddDays(date, k)

\* C16: an upstream call that fails (status outside 2xx or network error) is made
\* 3 times in total before the failure counts as no data (price lookups) or the
\* default is used (shares lookup).
C16_FailingCallRetried ==
  (server.via = "post" /\ server.pc = "responded")
    => /\ \A i \in DOMAIN server.attempts :
            server.attempts[i].kind \in {"http", "net"}
              => Cardinality({j \in DOMAIN server.attempts :
                                server.attempts[j].date = server.attempts[i].date}) = 3
       /\ \A i \in DOMAIN server.fund :
            server.fund[i].kind \in {"http", "net"} => Len(server.fund) = 3

\* C17: shares resolution never fails a request: once the price lookup has found a
\* record, whatever the fundamentals lookup answers, the route answers 200 with a
\* record whose share count is strictly positive.
C17_SharesNeverFail ==
  (server.via = "post" /\ server.pc = "responded" /\ server.priceData # <<>>)
    => /\ server.status = 200
       /\ Len(server.fund) = 1
       /\ "shares_outstanding" \in DOMAIN server.body
       /\ server.body.shares_outstanding > 0
       /\ "error" \notin DOMAIN server.body

\* The fundamentals lookup failed with an HTTP error and the record carries the
\* fixed fallback count.
C17_Witness ==
  /\ RouteRecord
  /\ server.fund[1].kind = "http"
  /\ server.formattedTicker = "ZZZZ.US"
  /\ server.body.shares_outstanding = FallbackShares

\* The first alias holds a negative count and no other alias is present.
C17_WitnessNegative ==
  /\ RouteRecord
  /\ server.fund[1].kind = "json"
  /\ server.fund[1].aliases[1] = <<-5>>
  /\ server.body.shares_outstanding > 0

\* C18: the share count taken from the fundamentals answer is the value of the
\* first alias, in the fixed order, that is present and strictly positive; the
\* default table is used only when no alias holds a strictly positive value.
C18_FirstPositiveAlias ==
  (RouteRecord /\ server.fund[1].kind = "json")
    => LET aliases == server.fund[1].aliases
           positive == {i \in 1..AliasCount : aliases[i] # Absent /\ aliases[i][1] > 0}
       IN IF positive # {}
          THEN server.body.shares_outstanding =
                 aliases[CHOOSE i \in positive : \A j \in positive : i <= j][1]
          ELSE server.body.shares_outstanding =
                 getDefaultSharesOutstanding(server.formattedTicker)

\* Two exact quotients are the same number (denominators positive).
RatioEq(a, b) ==
  /\ a.num \div a.den = b.num \div b.den
  /\ (a.num % a.den) * b.den = (b.num % b.den) * a.den

\* C19: in every result record, of the route or of EODHDClient.getMarketCap, the
\* market cap is the quote's adjusted close times the share count, and the market
\* cap in billions is the market cap divided by 1,000,000,000; the raw close
\* does not enter.
C19_AdjustedTimesShares ==
  (server.pc = "responded" /\ server.status = 200)
    => LET quote == server.priceData[1]
           record == server.body
       IN /\ record.market_cap = quote.adjusted_close * record.shares_outstanding
          /\ RatioEq(record.market_cap_billions, Ratio(record.market_cap, Billion))

\* The percentage the note states for each pair of PricePairs that has a note.
ExpectedPercent(rawPrice, adjustedPrice) ==
  CASE rawPrice = 100000 /\ adjustedPrice = 95000 -> "-5.0"
    [] rawPrice = 100000 /\ adjustedPrice = 99980 -> "-0.0"
    [] rawPrice = 100000 /\ adjustedPrice = 100120 -> "0.1"
    [] rawPrice = 200000 /\ adjustedPrice = 100000 -> "-50.0"

\* C20: the record has an adjustment note exactly when |adjusted - raw| > 0.01,
\* and the note states (adjusted / raw - 1) * 100 to one decimal: raw 100.00 with
\* adjusted 95.00 gives -5.0%, raw 100.00 with adjusted 100.00 gives no note.
C20_AdjustmentNote ==
  RouteRecord
    => LET raw == server.body.price
           adj == server.body.adjusted_price
           note == server.body.price_adjustment_note
       IN /\ raw = server.priceData[1].close
          /\ adj = server.priceData[1].adjusted_close
          /\ (note # Undefined) <=> (adj - raw > 10 \/ raw - adj > 10)
          /\ note # Undefined
               => note = "Split/dividend adjusted price used ("
                           \o ExpectedPercent(raw, adj) \o "% adjustment)"
          /\ (raw = 100000 /\ adj = 100000) => note = Undefined

\* Raw 100.00 with adjusted 95.00: the note states -5.0%.
C20_Witness ==
  /\ RouteRecord
  /\ server.body.price = 100000
  /\ server.body.adjusted_price = 95000
  /\ server.body.price_adjustment_note
       = "Split/dividend adjusted price used (-5.0% adjustment)"

\* Raw 100.00 with adjusted 100.005: a difference below the threshold, no note.
C20_WitnessBelowThreshold ==
  /\ RouteRecord
  /\ server.body.adjusted_price = 100005
  /\ server.body.price_adjustment_note = Undefined

\* C23: a control operation has no effect outside its source states: the pause
\* flag is set only from loading and not paused, resume() acts only when loading
\* and paused, a controller is aborted only when loading; in every other state no
\* step is one of these operations, the buttons not being rendered.
C23_ControlsOnlyInState ==
  [][/\ (isPaused' /\ ~isPaused) => (isLoading /\ ~isPaused)
     /\ (\E r \in RunIds : runs'[r].resumed /\ ~runs[r].resumed) => (isLoading /\ isPaused)
     /\ (aborted' # aborted \/ \E r \in RunIds : runs'[r].stopped /\ ~runs[r].stopped)
          => isLoading
     /\ (~isLoading /\ nruns' = nruns /\ \A r \in RunIds : ~Live(runs[r]))
          => (/\ isLoading' = isLoading
              /\ isPaused' = isPaused
              /\ progress' = progress
              /\ results' = results
              /\ errors' = errors)]_vars

\* A stopped batch with a published result: not loading, so none of the three
\* buttons is rendered.
C23_Witness ==
  /\ ~isLoading
  /\ ~isPaused
  /\ Len(results) > 0
  /\ \A r \in RunIds : ~Live(runs[r])
  /\ \E r \in RunIds : runs[r].stopped

\* C25: whenever a run finishes a request, the published progress, results and
\* errors become that run's accumulators; the accumulators change at no other
\* moment, so the run's last publication holds every item it finished.
C25_PublishedAfterEveryItem ==
  [][\A r \in RunIds :
       (\/ runs'[r].allResults # runs[r].allResults
        \/ runs'[r].allErrors # runs[r].allErrors
        \/ runs'[r].completed # runs[r].completed
        \/ runs'[r].failed # runs[r].failed)
         => (/\ nruns' = nruns
             /\ results' = runs'[r].allResults
             /\ errors' = runs'[r].allErrors
             /\ progress' = [completed |-> runs'[r].completed,
                             total |-> runs'[r].totalRequests,
                             failed |-> runs'[r].failed]
             /\ runs'[r].completed = runs[r].completed + 1
             /\ Len(runs'[r].allResults) + Len(runs'[r].allErrors) = runs'[r].completed)]_vars

\* A run ended by stop() after three items: the published snapshot holds the three.
C25_Witness ==
  \E r \in RunIds :
    /\ runs[r].endedBy = "abort"
    /\ runs[r].stopped
    /\ runs[r].completed = 3
    /\ results = runs[r].allResults
    /\ errors = runs[r].allErrors
    /\ progress.completed = 3

\* C30: stop() during the delay after a request ends the loop from the delay: in
\* the step of the stop the run that is sleeping is over.
C30_StopInterruptsDelay ==
  [][(/\ abortControllerRef \in RunIds
      /\ abortControllerRef \in aborted'
      /\ abortControllerRef \notin aborted
      /\ runs[abortControllerRef].pc = "sleep")
       => runs'[abortControllerRef].pc = "done"]_vars

\* C24: the message of an errors row is the message of the layer that failed,
\* word for word: when the route rejects the batch's request with an error
\* message in its answer, the errors row of that key holds that message.
C24_MessageVerbatim ==
  (/\ server.via = "post"
   /\ nruns = 1
   /\ runs[1].pc = "done"
   /\ server.status # 200
   /\ "error" \in DOMAIN server.body)
    => /\ Len(errors) = 1
       /\ errors[1].error = server.body.error

\* C26: a ticker without a strictly positive alias in the fundamentals answer
\* and without an entry in the default table gets 1,000,000,000 shares (the
\* share counts of the model are in units of 100,000,000).
C26_FixedFallback ==
  (/\ RouteRecord
   /\ server.formattedTicker \notin DOMAIN defaultShares
   /\ \/ server.fund[1].kind # "json"
      \/ \A i \in 1..AliasCount :
           server.fund[1].aliases[i] = Absent \/ server.fund[1].aliases[i][1] <= 0)
    => server.body.shares_outstanding * 100000000 = 1000000000

\* The fundamentals answer holds only zero and absent aliases for a ticker that
\* the default table does not list, and the record carries the fixed count.
C26_Witness ==
  /\ RouteRecord
  /\ server.formattedTicker = "ZZZZ.US"
  /\ server.fund[1].kind = "json"
  /\ server.fund[1].aliases[1] = <<0>>
  /\ \A i \in 1..AliasCount :
       server.fund[1].aliases[i] = Absent \/ server.fund[1].aliases[i][1] <= 0
  /\ server.body.shares_outstanding = 10

\* The ticker holds no ".".
DotFree(t) == \A i \in 1..Len(t) : SubSeq(t, i, i) # "."

\* C27: the normalized ticker is the ticker followed by ".US" when the ticker
\* holds no "." and the ticker itself otherwise; normalizing it again changes
\* nothing; every request to the provider, the lookup in the default table and
\* the record's ticker use the normalized form.
C27_NormalizedEverywhere ==
  (server.formattedTicker # "")
    => /\ server.formattedTicker =
            (IF DotFree(server.ticker) THEN server.ticker \o ".US" ELSE server.ticker)
       /\ FormatTicker(server.formattedTicker) = server.formattedTicker
       /\ \A i \in DOMAIN server.calls : server.calls[i].symbol = server.formattedTicker
       /\ (server.pc = "responded" /\ server.status = 200)
            => server.body.ticker = server.formattedTicker
       /\ (RouteRecord /\ server.fund[1].kind # "json" /\ server.ticker = "AAPL")
            => server.body.shares_outstanding = defaultShares["AAPL.US"]

\* A ticker with an exchange suffix went through the route unchanged: both
\* provider requests and the record carry it as it was sent.
C27_Witness ==
  /\ RouteRecord
  /\ server.ticker = "ASML.AS"
  /\ Len(server.calls) >= 2
  /\ \A i \in DOMAIN server.calls : server.calls[i].symbol = "ASML.AS"
  /\ server.body.ticker = "ASML.AS"

\* A ticker without a suffix got ".US" and the default table was read with it.
C27_WitnessSuffixAdded ==
  /\ RouteRecord
  /\ server.ticker = "AAPL"
  /\ server.body.ticker = "AAPL.US"
  /\ server.fund[1].kind = "net"
  /\ server.body.shares_outstanding = 154

\* C29: a price lookup that fails in transport (HTTP status or network) counts
\* as no data for its date only: the lookup goes on with the next candidate
\* date, and the request is rejected only after the last candidate date, when no
\* candidate had data.
C29_TransportFailureIsNoData ==
  (server.via = "post")
    => /\ \A i \in DOMAIN server.attempts :
            /\ server.attempts[i].date = LookupDates(server.zone, server.date)[i]
            /\ server.attempts[i].kind # "data"
                 => \/ i < Len(server.attempts)
                    \/ server.pc = "price" /\ server.n = i
                    \/ /\ i = FallbackDays + 1
                       /\ server.pc = "responded"
                       /\ server.status = 500
       /\ (server.pc = "responded" /\ server.status = 500 /\ server.attempts # <<>>)
            => /\ Len(server.attempts) = FallbackDays + 1
               /\ \A i \in DOMAIN server.attempts : server.attempts[i].kind # "data"

\* Two lookups failed with an HTTP status, the third date had data and the
\* route answered with a record of that date.
C29_Witness ==
  /\ RouteRecord
  /\ Len(server.attempts) = 3
  /\ server.attempts[1].kind = "http"
  /\ server.attempts[2].kind = "http"
  /\ server.attempts[3].kind = "data"
  /\ server.body.date = server.attempts[3].date

\* Every candidate date failed on the network and only then the route rejected.
C29_WitnessExhausted ==
  /\ server.via = "post"
  /\ server.pc = "responded"
  /\ server.status = 500
  /\ Len(server.attempts) = FallbackDays + 1
  /\ \A i \in DOMAIN server.attempts : server.attempts[i].kind = "net"

\* The ticker without a ".US" at its end.
WithoutUsSuffix(t) ==
  IF Len(t) >= 3 /\ SubSeq(t, Len(t) - 2, Len(t)) = ".US"
  THEN SubSeq(t, 1, Len(t) - 3)
  ELSE t

\* The metric the download is about.
FieldOf(file) == CHOOSE f \in PivotFields : ExportFileName[f] = file.filename

\* The table is the pivot of res for the range sy..ey: a header of "Ticker" and
\* the years, one row per display ticker of res in ascending order, and in each
\* cell the metric of a record of that ticker and year, or nothing.
IsPivotOf(table, res, field, sy, ey) ==
  LET width == IF ey >= sy THEN ey - sy + 1 ELSE 0
      keys == {WithoutUsSuffix(res[i].ticker) : i \in DOMAIN res}
  IN /\ Len(table) = 1 + Cardinality(keys)
     /\ Len(table[1]) = 1 + width
     /\ table[1][1] = "Ticker"
     /\ \A j \in 1..width : table[1][j + 1] = NatToString(sy + j - 1)
     /\ {table[k][1] : k \in 2..Len(table)} = keys
     /\ \A k \in 2..(Len(table) - 1) : StringLess(table[k][1], table[k + 1][1])
     /\ \A k \in 2..Len(table) :
          /\ Len(table[k]) = 1 + width
          /\ \A j \in 1..width :
               LET of == {i \in DOMAIN res :
                            /\ WithoutUsSuffix(res[i].ticker) = table[k][1]
                            /\ res[i].year = sy + j - 1}
               IN IF of = {}
                  THEN table[k][j + 1] = ""
                  ELSE \E i \in of : table[k][j + 1] = ValueToString(field, res[i][field])

\* C21: every pivot export is the table with one row per distinct display
\* ticker of results, in alphabetical order, one column per year of the range
\* of the form, an empty cell where results has no record of the ticker and
\* year, and the chosen metric of the record otherwise.
C21_PivotShape ==
  [][(downloaded' # downloaded)
       => IsPivotOf(downloaded'.table, results, FieldOf(downloaded'), startYear, endYear)]_vars

\* A pivot of prices made during a run: ZZZZ has both years, AAPL the first one
\* only, and the rows are AAPL, ZZZZ though ZZZZ was fetched first.
C21_Witness ==
  /\ downloaded.filename = "market_cap_prices.csv"
  /\ downloaded.table = << <<"Ticker", "2009", "2010">>,
                           <<"AAPL", "104", "">>,
                           <<"ZZZZ", "104", "105">> >>
  /\ downloaded.content = "Ticker,2009,2010\nAAPL,104,\nZZZZ,104,105"

\* A pivot of share counts with a ticker that keeps its own exchange suffix.
C21_WitnessSuffix ==
  /\ downloaded.filename = "shares_outstanding.csv"
  /\ downloaded.table = << <<"Ticker", "2009", "2010">>,
                           <<"AAPL", "15400000000", "15400000000">>,
                           <<"ASML.AS", "1000000000", "1000000000">> >>

\* C22: an export of the same metric from the same results gives the same
\* table as the export before it, whatever happened in between, and its
\* columns are the years the run of those results was started with.
C22_PivotPure ==
  [][(downloaded' # downloaded)
       => /\ (downloaded.filename = downloaded'.filename /\ downloaded.of = downloaded'.of)
               => downloaded'.table = downloaded.table
          /\ nruns = 1
               => downloaded'.table[1] =
                    <<"Ticker">> \o [j \in DOMAIN runs[1].years |->
                                       NatToString(runs[1].years[j])]]_vars

\* C28: no request key occurs twice in a batch: the requests a run has issued
\* differ pairwise in ticker or year.
C28_KeysUnique ==
  \A r \in RunIds :
    \A i, j \in DOMAIN runs[r].issued :
      (i # j) => <<runs[r].issued[i].ticker, runs[r].issued[i].year>>
                   # <<runs[r].issued[j].ticker, runs[r].issued[j].year>>

\* C31: stop() while the batch is paused ends the run: the stop leaves the batch
\* neither paused nor loading with no loop waiting for resume, and a run that
\* was stopped begins no request afterwards.
C31_StopWhilePausedEndsRun ==
  [][/\ (\E r \in RunIds : runs'[r].stopped /\ ~runs[r].stopped)
          => (~isPaused' /\ ~isLoading' /\ pauseResolveRef' = NoRun)
     /\ \A r \in RunIds :
          runs[r].stopped => Len(runs'[r].issued) = Len(runs[r].issued)]_vars

\* C32: the delay is slept between requests only: a run that is sleeping has a
\* pair left to request after the one it has just processed.
C32_NoDelayAfterLast ==
  \A r \in RunIds :
    (runs[r].pc = "sleep")
      => /\ ~LoopOver(NextPos(runs[r]))
         /\ runs[r].completed < runs[r].totalRequests

\* The step is a pause() or a resume(): the pause flag changes and the batch is
\* still loading afterwards.
PauseOrResumeStep == (isPaused' # isPaused) /\ isLoading /\ isLoading'

\* C33: pause() and resume() change only the pause flag: no controller is
\* aborted, every request in flight stays in flight, and the published results,
\* errors and counters and every run's accumulators are as before.
C33_PauseResumeFrame ==
  [][PauseOrResumeStep
       => /\ aborted' = aborted
          /\ abortControllerRef' = abortControllerRef
          /\ results' = results
          /\ errors' = errors
          /\ progress' = progress
          /\ nruns' = nruns
          /\ \A r \in RunIds :
               /\ runs'[r].pc = runs[r].pc
               /\ runs'[r].sig = runs[r].sig
               /\ runs'[r].issued = runs[r].issued
               /\ runs'[r].allResults = runs[r].allResults
               /\ runs'[r].allErrors = runs[r].allErrors
               /\ runs'[r].completed = runs[r].completed
               /\ runs'[r].failed = runs[r].failed
               /\ runs'[r].totalRequests = runs[r].totalRequests]_vars

\* A batch was paused and resumed and has its second request in flight, with the
\* first result published.
C33_Witness ==
  /\ isLoading
  /\ ~isPaused
  /\ \E r \in RunIds :
       /\ runs[r].resumed
       /\ runs[r].pc = "fetch"
       /\ Len(runs[r].issued) = 2
       /\ runs[r].completed = 1
       /\ Len(results) = 1
       /\ results = runs[r].allResults
       /\ progress.completed = 1

\* C34: every started run terminates: its loop ends, completed or stopped, and
\* the step that ends it leaves the loading and paused flags cleared.
C34_RunTerminates ==
  /\ \A r \in RunIds :
       (runs[r].pc # "none") ~> (runs[r].pc = "done" /\ runs[r].endedBy \in {"complete", "abort"})
  /\ [][\A r \in RunIds :
          (runs[r].pc # "done" /\ runs'[r].pc = "done") => (~isLoading' /\ ~isPaused')]_vars

\* A run that was paused and resumed has completed all its requests, and the
\* batch is neither loading nor paused.
C34_Witness ==
  /\ ~isLoading
  /\ ~isPaused
  /\ \E r \in RunIds :
       /\ runs[r].pc = "done"
       /\ runs[r].endedBy = "complete"
       /\ runs[r].resumed
       /\ runs[r].completed = runs[r].totalRequests
       /\ runs[r].totalRequests = 2

\* A run that was stopped during its delay has ended by the abort.
C34_WitnessStopped ==
  \E r \in RunIds :
    /\ runs[r].pc = "done"
    /\ runs[r].endedBy = "abort"
    /\ runs[r].stopped
    /\ runs[r].delay > 0
    /\ runs[r].completed = 1

\* C35: while the loop of a run that was not stopped is still executing, the
\* batch is loading: no earlier run's end has cleared the flag.
C35_LoadingWhileRunning ==
  (\E r \in RunIds : Live(runs[r]) /\ ~runs[r].stopped) => isLoading

\* C36: in every published snapshot 0 <= failed <= completed <= total, failed is
\* the number of errors rows and completed is the number of results rows plus
\* the number of errors rows.
C36_CountersConsistent ==
  /\ 0 <= progress.failed
  /\ progress.failed <= progress.completed
  /\ progress.completed <= progress.total
  /\ progress.failed = Len(errors)
  /\ progress.completed = Len(results) + Len(errors)

\* A snapshot during a run with two results and one error out of four requests.
C36_Witness ==
  /\ isLoading
  /\ progress = [completed |-> 3, total |-> 4, failed |-> 1]
  /\ Len(results) = 2
  /\ Len(errors) = 1

\* The rows as the component holds them, without the history fields run and seq.
Records(rows) ==
  [i \in DOMAIN rows |-> [f \in (DOMAIN rows[i]) \ {"run", "seq"} |-> rows[i][f]]]

\* The records of s are a prefix of the records of t.
IsPrefix(s, t) == Len(s) <= Len(t) /\ SubSeq(Records(t), 1, Len(s)) = Records(s)

\* C37: between one start() and the next the published results and errors only
\* grow at the end: every step that is no start() leaves the sequence published
\* before as a prefix of the one published after.
C37_AppendOnly ==
  [][(nruns' = nruns) => (IsPrefix(results, results') /\ IsPrefix(errors, errors'))]_vars

\* C38: the route requests the fundamentals only after a price was resolved: a
\* fundamentals request is the last request made, follows the price lookup that
\* had data, and does not exist when every candidate date was without data.
C38_SharesAfterPrice ==
  (server.via = "post")
    => /\ \A i \in DOMAIN server.calls :
            (server.calls[i].endpoint = "fundamentals")
              => /\ server.priceData # <<>>
                 /\ i = Len(server.calls)
                 /\ i = Len(server.attempts) + 1
                 /\ server.attempts[i - 1].kind = "data"
                 /\ \A j \in 1..(i - 1) : server.calls[j].endpoint = "eod"
       /\ (server.pc = "responded" /\ server.priceData = <<>>)
            => /\ server.fund = <<>>
               /\ \A i \in DOMAIN server.calls : server.calls[i].endpoint = "eod"

\* The route answered with a record after one empty price lookup, one with data
\* and then the fundamentals request.
C38_Witness ==
  /\ RouteRecord
  /\ Len(server.calls) = 3
  /\ server.calls[1].endpoint = "eod"
  /\ server.calls[2].endpoint = "eod"
  /\ server.calls[3].endpoint = "fundamentals"
  /\ server.attempts[1].kind = "empty"
  /\ server.attempts[2].kind = "data"

\* Every candidate date was empty: six price lookups and no fundamentals request.
C38_WitnessNoPrice ==
  /\ server.via = "post"
  /\ server.pc = "responded"
  /\ server.status = 500
  /\ Len(server.calls) = FallbackDays + 1
  /\ \A i \in DOMAIN server.calls : server.calls[i].endpoint = "eod"
  /\ \A i \in DOMAIN server.attempts : server.attempts[i].kind = "empty"
  /\ server.fund = <<>>

\* C39: a request without ticker or date is answered with status 400, and a
\* request with both while no token is configured with status 500, and in both
\* cases no request was made to the provider.
C39_RejectedBeforeUpstream ==
  (server.via = "post" /\ server.pc # "post")
    => /\ (server.ticker = "" \/ server.date = NoDate)
            => /\ server.pc = "responded"
               /\ server.status = 400
               /\ server.calls = <<>>
               /\ server.attempts = <<>>
               /\ server.fund = <<>>
       /\ (server.ticker # "" /\ server.date # NoDate /\ ~server.token)
            => /\ server.pc = "responded"
               /\ server.status = 500
               /\ server.calls = <<>>
               /\ server.attempts = <<>>
               /\ server.fund = <<>>

\* A request without a ticker, made while no token is configured, was answered
\* with status 400.
C39_Witness ==
  /\ server.via = "post"
  /\ server.pc = "responded"
  /\ server.ticker = ""
  /\ ~server.token
  /\ server.status = 400
  /\ server.calls = <<>>

\* A request with ticker and date, made while no token is configured, was
\* answered with status 500.
C39_WitnessNoToken ==
  /\ server.via = "post"
  /\ server.pc = "responded"
  /\ server.ticker = "AAPL"
  /\ server.date # NoDate
  /\ ~server.token
  /\ server.status = 500
  /\ server.calls = <<>>

====
